---- MODULE Spec2Model ----
(***************************************************************************)
(* A model of osbs/build/plugins_configuration.py: the PluginsTemplate     *)
(* document object (lazy template / customization loading, plugin lookup,  *)
(* insertion, removal and argument patching), the customization pass and   *)
(* the render_* rules of PluginsConfigurationBase, and the two render()    *)
(* methods (image builds, source container builds).                       *)
(*                                                                         *)
(* JSON values are tagged records: None, Bool(b), Num(n), Str(s),          *)
(* Text(chars), List(seq), Dict(f).  A document is a function from phase   *)
(* names to sequences of plugin entries; an entry is a function whose      *)
(* domain is a subset of {"name", "args", "required"} (plus the            *)
(* bookkeeping key "args_ref", see add_plugin).                            *)
(***************************************************************************)
EXTENDS Integers, Sequences, FiniteSets, TLC

VARIABLES
    flavor,        \* "image" (PluginsConfiguration) or "source" (SourceContainerPluginsConfiguration)
    user_params,   \* self.user_params: field name -> value
    valid,         \* whether user_params.validate() passes
    files,         \* the template file and the customization file on disk
    pt,            \* self.pt: the PluginsTemplate object
    pc,            \* position of the caller: "idle", "render", "returned", "raised";
                   \* "api" when it calls the PluginsTemplate methods itself
    step,          \* index of the next statement of render() to run;
                   \* the number of calls made when pc = "api"
    output,        \* what render() (or the last PluginsTemplate call) returned
    error,         \* the exception that escaped, "none" if none
    call,          \* the last PluginsTemplate method called directly, with its arguments
    pre            \* self.pt as it was before that call

vars == <<flavor, user_params, valid, files, pt, pc, step, output, error, call, pre>>

-----------------------------------------------------------------------------
(* JSON / Python values *)

None == [t |-> "none"]
Bool(b) == [t |-> "bool", v |-> b]
Str(s) == [t |-> "str", v |-> s]
\* a string whose characters matter (image_tag is split at ':'): a sequence of characters
Text(chars) == [t |-> "text", v |-> chars]
Num(n) == [t |-> "int", v |-> n]
List(s) == [t |-> "list", v |-> s]
Dict(f) == [t |-> "dict", v |-> f]

EmptyDict == <<>>

\* Python truthiness: None, False, 0, "", [] and {} are false
Truthy(x) ==
    CASE x.t = "none" -> FALSE
      [] x.t = "bool" -> x.v
      [] x.t = "int" -> x.v # 0
      [] x.t = "str" -> x.v # ""
      [] x.t = "text" -> Len(x.v) > 0
      [] x.t = "list" -> Len(x.v) > 0
      [] x.t = "dict" -> DOMAIN x.v # {}
      [] OTHER -> TRUE

Min(S) == CHOOSE m \in S : \A n \in S : m <= n

RemoveAt(s, i) == [j \in 1..(Len(s) - 1) |-> IF j < i THEN s[j] ELSE s[j + 1]]

\* d with d[k] = x, k added to the domain when it is not there
Put(d, k, x) == [j \in DOMAIN d \cup {k} |-> IF j = k THEN x ELSE d[j]]

\* d without the key k
Drop(d, k) == [j \in DOMAIN d \ {k} |-> d[j]]

-----------------------------------------------------------------------------
(* Outcome of a method call: the object afterwards, the exception raised    *)
(* ("none" if it returned) and the value returned.                          *)

R(p, err) == [pt |-> p, err |-> err, ret |-> None]
Ret(p, x) == [pt |-> p, err |-> "none", ret |-> x]
Ok(r) == r.err = "none"

\* r, then F on the object r left, unless r raised
Then(r, F(_)) == IF Ok(r) THEN F(r.pt) ELSE r

-----------------------------------------------------------------------------
(* class PluginsTemplate *)

\* PluginsTemplate.__init__
NewPluginsTemplate(customize_conf_path) ==
    [_template |-> None,
     _customize_conf |-> None,
     _customize_conf_path |-> customize_conf_path,
     reads |-> [template |-> 0, customize |-> 0]]

\* a changed property: a file that cannot be opened gives an empty document
template_or_empty(p) ==
    IF p._template # None THEN R(p, "none")
    ELSE CASE files.template.kind = "missing" ->
                R([p EXCEPT !._template = EmptyDict], "none")
           [] files.template.kind = "invalid" ->
                R([p EXCEPT !.reads.template = @ + 1], "ValueError")
           [] files.template.kind = "null" ->
                R([p EXCEPT !.reads.template = @ + 1], "none")
           [] OTHER ->
                R([p EXCEPT !._template = files.template.data,
                            !.reads.template = @ + 1], "none")

\* a changed property: the file is loaded at every access
template_uncached(p) ==
    CASE files.template.kind = "missing" -> R(p, "OsbsException")
      [] files.template.kind = "invalid" ->
            R([p EXCEPT !.reads.template = @ + 1], "ValueError")
      [] files.template.kind = "null" ->
            R([p EXCEPT !.reads.template = @ + 1], "none")
      [] OTHER ->
            R([p EXCEPT !._template = files.template.data,
                        !.reads.template = @ + 1], "none")

\* property template: load the file on first use and cache it (json.load
\* gives None for a file that holds null: _template stays None)
template(p) ==
    IF p._template # None THEN R(p, "none")
    ELSE CASE files.template.kind = "missing" -> R(p, "OsbsException")
           [] files.template.kind = "invalid" ->
                R([p EXCEPT !.reads.template = @ + 1], "ValueError")
           [] files.template.kind = "null" ->
                R([p EXCEPT !.reads.template = @ + 1], "none")
           [] OTHER ->
                R([p EXCEPT !._template = files.template.data,
                            !.reads.template = @ + 1], "none")

\* a changed property: the file is opened even when no path is configured
customize_conf_any_path(p) ==
    IF p._customize_conf # None THEN R(p, "none")
    ELSE CASE files.customize.kind = "missing" ->
                R([p EXCEPT !._customize_conf = EmptyDict], "none")
           [] files.customize.kind = "invalid" ->
                R([p EXCEPT !.reads.customize = @ + 1], "ValueError")
           [] files.customize.kind = "null" ->
                R([p EXCEPT !.reads.customize = @ + 1], "none")
           [] OTHER ->
                R([p EXCEPT !._customize_conf = files.customize.data,
                            !.reads.customize = @ + 1], "none")

\* property customize_conf
customize_conf(p) ==
    IF p._customize_conf # None THEN R(p, "none")
    ELSE IF p._customize_conf_path = None
         THEN R([p EXCEPT !._customize_conf = EmptyDict], "none")
    ELSE CASE files.customize.kind = "missing" ->
                R([p EXCEPT !._customize_conf = EmptyDict], "none")
           [] files.customize.kind = "invalid" ->
                R([p EXCEPT !.reads.customize = @ + 1], "ValueError")
           [] files.customize.kind = "null" ->
                R([p EXCEPT !.reads.customize = @ + 1], "none")
           [] OTHER ->
                R([p EXCEPT !._customize_conf = files.customize.data,
                            !.reads.customize = @ + 1], "none")

\* a changed lookup: self.template.setdefault(phase, []), a phase the
\* template lacks is created
InPhaseSetDefault(r, phase) ==
    IF ~Ok(r) THEN r
    ELSE IF r.pt._template = None THEN R(r.pt, "TypeError")
    ELSE IF phase \notin DOMAIN r.pt._template
    THEN R([r.pt EXCEPT !._template = Put(@, phase, <<>>)], "none")
    ELSE r

\* the expression self.template[phase], r being the outcome of self.template
InPhase(r, phase) ==
    IF ~Ok(r) THEN r
    ELSE IF r.pt._template = None THEN R(r.pt, "TypeError")
    ELSE IF phase \notin DOMAIN r.pt._template THEN R(r.pt, "KeyError")
    ELSE r

TemplatePhase(p, phase) == InPhase(template(p), phase)

\* p.get('name') == name
NameIs(e, name) == "name" \in DOMAIN e /\ e.name = name

\* an entry as json.dumps writes it (without the model's bookkeeping key)
PlainEntry(e) == Drop(e, "args_ref")
PlainList(lst) == [i \in 1..Len(lst) |-> PlainEntry(lst[i])]
Plain(doc) == [ph \in DOMAIN doc |-> PlainList(doc[ph])]

\* the positions in lst of the entries named name
Named(lst, name) == {i \in 1..Len(lst) : NameIs(lst[i], name)}

\* list.remove(x) deletes the first element equal to x
ListRemove(lst, x) ==
    RemoveAt(lst, Min({j \in 1..Len(lst) : PlainEntry(lst[j]) = PlainEntry(x)}))

\* the loop of remove_plugin over lst = self.template[phase]
\* a changed removal: the last entry named name goes
RemoveLastNamed(lst, name) ==
    IF Named(lst, name) = {} THEN lst
    ELSE RemoveAt(lst, CHOOSE i \in Named(lst, name) : \A j \in Named(lst, name) : j <= i)

RemoveFirstNamed(lst, name) ==
    IF Named(lst, name) = {} THEN lst
    ELSE ListRemove(lst, lst[Min(Named(lst, name))])

\* remove_plugin, r being the outcome of self.template[phase]
RemoveIn(r, phase, name) ==
    IF ~Ok(r) THEN r
    ELSE R([r.pt EXCEPT !._template[phase] = RemoveFirstNamed(@, name)], "none")

remove_plugin(p, phase, name) == RemoveIn(TemplatePhase(p, phase), phase, name)

\* An argument object handed to add_plugin: its value, and which enable
\* directive of the customization document it is (0: an object of the caller).
ArgsObj(val, ref) == [val |-> val, ref |-> ref]

\* plugin['args'] = args: the entry now holds that very object
WithArgs(e, args) ==
    IF args.ref = 0 THEN Put(Drop(e, "args_ref"), "args", args.val)
    ELSE Put(Put(e, "args", args.val), "args_ref", args.ref)

\* the position at which plugin['name'] raises KeyError (an entry without a
\* name), Len(lst) + 1 if there is none
FirstNameless(lst) ==
    IF \A i \in 1..Len(lst) : "name" \in DOMAIN lst[i] THEN Len(lst) + 1
    ELSE Min({i \in 1..Len(lst) : "name" \notin DOMAIN lst[i]})

\* the loop of add_plugin over lst = self.template[phase]: every entry named
\* name before position stop gets the args
ReplaceArgs(lst, name, args, stop) ==
    [i \in 1..Len(lst) |->
        IF i < stop /\ lst[i].name = name THEN WithArgs(lst[i], args) ELSE lst[i]]

\* a changed add_plugin: the entry is appended whether or not one is there
AddToListAppend(lst, name, args) ==
    IF FirstNameless(lst) <= Len(lst) THEN lst
    ELSE Append(lst, WithArgs([name |-> name], args))

\* a changed add_plugin: a new entry is put at the head of the list
AddToListPrepend(lst, name, args) ==
    IF \E i \in 1..Len(lst) : i < FirstNameless(lst) /\ lst[i].name = name
    THEN ReplaceArgs(lst, name, args, FirstNameless(lst))
    ELSE IF FirstNameless(lst) <= Len(lst) THEN lst
    ELSE <<WithArgs([name |-> name], args)>> \o lst

\* add_plugin on lst = self.template[phase]: the list afterwards
AddToList(lst, name, args) ==
    IF \E i \in 1..Len(lst) : i < FirstNameless(lst) /\ lst[i].name = name
    THEN ReplaceArgs(lst, name, args, FirstNameless(lst))
    ELSE IF FirstNameless(lst) <= Len(lst) THEN lst
    ELSE Append(lst, WithArgs([name |-> name], args))

\* a changed add_plugin body: the loop over the phase is left out, the entry
\* is always appended
AddInAppend(r, phase, name, args) ==
    IF ~Ok(r) THEN r
    ELSE R([r.pt EXCEPT !._template[phase] = Append(@, WithArgs([name |-> name], args))],
           "none")

\* add_plugin, r being the outcome of self.template[phase]
AddIn(r, phase, name, args) ==
    IF ~Ok(r) THEN r
    ELSE R([r.pt EXCEPT !._template[phase] = AddToList(@, name, args)],
           IF FirstNameless(r.pt._template[phase]) <= Len(r.pt._template[phase])
           THEN "KeyError" ELSE "none")

\* a changed add_plugin: the entry is appended without looking for the name
add_plugin_append(p, phase, name, args) ==
    IF ~Ok(TemplatePhase(p, phase)) THEN TemplatePhase(p, phase)
    ELSE R([TemplatePhase(p, phase).pt EXCEPT
                !._template[phase] = Append(@, WithArgs([name |-> name], args))],
           "none")

add_plugin(p, phase, name, args) == AddIn(TemplatePhase(p, phase), phase, name, args)

\* get_plugin_conf, r being the outcome of self.template[phase]; returns the
\* position of the entry in its phase (the entry is self.template[phase][ret])
\* a changed lookup: match[-1], the last entry named name
MatchInLast(r, phase, name) ==
    IF ~Ok(r) THEN r
    ELSE IF Named(r.pt._template[phase], name) = {} THEN R(r.pt, "IndexError")
    ELSE Ret(r.pt, CHOOSE i \in Named(r.pt._template[phase], name) :
                        \A j \in Named(r.pt._template[phase], name) : j <= i)

MatchIn(r, phase, name) ==
    IF ~Ok(r) THEN r
    ELSE IF Named(r.pt._template[phase], name) = {} THEN R(r.pt, "IndexError")
    ELSE Ret(r.pt, Min(Named(r.pt._template[phase], name)))

get_plugin_conf(p, phase, name) == MatchIn(TemplatePhase(p, phase), phase, name)

\* try: r; return True; except (KeyError, IndexError): return False
TrueUnlessLookupError(r) ==
    IF Ok(r) THEN Ret(r.pt, TRUE)
    ELSE IF r.err \in {"KeyError", "IndexError"} THEN Ret(r.pt, FALSE)
    ELSE r

has_plugin_conf(p, phase, name) == TrueUnlessLookupError(get_plugin_conf(p, phase, name))

\* except KeyError / except IndexError: raise RuntimeError
RuntimeErrorIfLookupError(r) ==
    IF r.err \in {"KeyError", "IndexError"} THEN R(r.pt, "RuntimeError") ELSE r

_get_plugin_conf_or_fail(p, phase, name) ==
    RuntimeErrorIfLookupError(get_plugin_conf(p, phase, name))

\* plugin_conf['args'][arg_key] = arg_value seen through entry e: an args
\* object that is an enable directive's plugin_args (args_ref) is the same
\* object wherever it is referenced
SetKey(e, ref, arg_key, arg_value) ==
    IF "args_ref" \in DOMAIN e /\ e.args_ref = ref
    THEN Put(e, "args", Put(e.args, arg_key, arg_value))
    ELSE e

\* a changed assignment: plugin_conf['args'] = {arg_key: arg_value}
SetOwnArgOnly(e, arg_key, arg_value) == Put(e, "args", Put(EmptyDict, arg_key, arg_value))

\* plugin_conf.setdefault("args", {}); plugin_conf['args'][arg_key] = arg_value
\* on an entry that owns its args
SetOwnArg(e, arg_key, arg_value) ==
    Put(e, "args", Put(IF "args" \in DOMAIN e THEN e.args ELSE EmptyDict,
                       arg_key, arg_value))

\* the same on an args object shared with enable directive ref
SetSharedArg(p, ref, arg_key, arg_value) ==
    [p EXCEPT
        !._template = [ph \in DOMAIN @ |->
                          [j \in 1..Len(@[ph]) |-> SetKey(@[ph][j], ref, arg_key, arg_value)]],
        !._customize_conf.enable_plugins[ref].plugin_args = Put(@, arg_key, arg_value)]

\* set_plugin_arg, r being the outcome of _get_plugin_conf_or_fail
SetIn(r, phase, arg_key, arg_value) ==
    IF ~Ok(r) THEN r
    ELSE IF "args_ref" \notin DOMAIN r.pt._template[phase][r.ret]
    THEN R([r.pt EXCEPT !._template[phase][r.ret] = SetOwnArg(@, arg_key, arg_value)],
           "none")
    ELSE R(SetSharedArg(r.pt, r.pt._template[phase][r.ret].args_ref, arg_key, arg_value),
           "none")

\* a changed set_plugin_arg: a plugin that is not configured is added
set_plugin_arg_upsert(p, phase, name, arg_key, arg_value) ==
    IF has_plugin_conf(p, phase, name).err = "none" /\ ~has_plugin_conf(p, phase, name).ret
    THEN add_plugin(p, phase, name, ArgsObj(Put(EmptyDict, arg_key, arg_value), 0))
    ELSE SetIn(_get_plugin_conf_or_fail(p, phase, name), phase, arg_key, arg_value)

set_plugin_arg(p, phase, name, arg_key, arg_value) ==
    SetIn(_get_plugin_conf_or_fail(p, phase, name), phase, arg_key, arg_value)

\* return True, r being the outcome of the set_plugin_arg call
ReturnTrue(r) == IF Ok(r) THEN Ret(r.pt, TRUE) ELSE r

\* a changed test: 'if value:' in place of 'if value is not None:'
set_plugin_arg_truthy(p, phase, plugin, name, value) ==
    IF Truthy(value)
    THEN ReturnTrue(set_plugin_arg(p, phase, plugin, name, value))
    ELSE Ret(p, FALSE)

set_plugin_arg_valid(p, phase, plugin, name, value) ==
    IF value # None
    THEN ReturnTrue(set_plugin_arg(p, phase, plugin, name, value))
    ELSE Ret(p, FALSE)

\* json.dumps(self.template), r being the outcome of self.template
Dumps(r) ==
    IF ~Ok(r) THEN r
    ELSE Ret(r.pt, IF r.pt._template = None THEN None ELSE Plain(r.pt._template))

to_json(p) == Dumps(template(p))

-----------------------------------------------------------------------------
(* class PluginsConfigurationBase: the rules.  Each takes the PluginsTemplate *)
(* object and the user parameters and gives the outcome of the method.       *)

\* osbs.constants.BUILD_TYPE_ORCHESTRATOR
BUILD_TYPE_ORCHESTRATOR == Str("orchestrator")

\* if h: Body, h being the outcome of self.pt.has_plugin_conf(phase, plugin)
IfTrue(h, Body(_)) ==
    IF ~Ok(h) THEN h
    ELSE IF h.ret THEN Body(h.pt)
    ELSE R(h.pt, "none")

\* if self.pt.has_plugin_conf(phase, plugin): Body
IfHas(p, phase, plugin, Body(_)) == IfTrue(has_plugin_conf(p, phase, plugin), Body)

\* if cond: self.pt.set_plugin_arg(phase, plugin, key, value)
SetIf(cond, p, phase, plugin, key, value) ==
    IF cond THEN set_plugin_arg(p, phase, plugin, key, value) ELSE R(p, "none")

\* a method that returns nothing
Proc(r) == [r EXCEPT !.ret = None]

\* a changed rule: each copy is made only when the one before it was made
render_add_filesystem_chained(p, up) ==
    LET phase == "prebuild_plugins"
        plugin == "add_filesystem"
    IN  Proc(IfHas(p, phase, plugin, LAMBDA q0 :
            IfTrue(set_plugin_arg_valid(q0, phase, plugin, "repos", up.yum_repourls),
            LAMBDA q1 :
            IfTrue(set_plugin_arg_valid(q1, phase, plugin, "from_task_id",
                                        up.filesystem_koji_task_id),
            LAMBDA q2 :
            IfTrue(set_plugin_arg_valid(q2, phase, plugin, "architecture", up.platform),
            LAMBDA q3 :
            set_plugin_arg_valid(q3, phase, plugin, "koji_target", up.koji_target))))))

render_add_filesystem(p, up) ==
    LET phase == "prebuild_plugins"
        plugin == "add_filesystem"
    IN  Proc(IfHas(p, phase, plugin, LAMBDA q0 :
            Then(set_plugin_arg_valid(q0, phase, plugin, "repos", up.yum_repourls),
            LAMBDA q1 :
            Then(set_plugin_arg_valid(q1, phase, plugin, "from_task_id",
                                      up.filesystem_koji_task_id),
            LAMBDA q2 :
            Then(set_plugin_arg_valid(q2, phase, plugin, "architecture", up.platform),
            LAMBDA q3 :
            set_plugin_arg_valid(q3, phase, plugin, "koji_target", up.koji_target))))))

render_add_image_content_manifest(p, up) ==
    LET phase == "prebuild_plugins"
        plugin == "add_image_content_manifest"
    IN  Proc(IfHas(p, phase, plugin, LAMBDA q :
            set_plugin_arg_valid(q, phase, plugin, "remote_sources", up.remote_sources)))

render_add_labels_in_dockerfile(p, up) ==
    LET phase == "prebuild_plugins"
        plugin == "add_labels_in_dockerfile"
        release_label == Dict([release |-> up.release])
    IN  Proc(IfHas(p, phase, plugin, LAMBDA q :
            SetIf(Truthy(up.release), q, phase, plugin, "labels", release_label)))

render_add_yum_repo_by_url(p, up) ==
    Proc(IfHas(p, "prebuild_plugins", "add_yum_repo_by_url", LAMBDA q :
        set_plugin_arg_valid(q, "prebuild_plugins", "add_yum_repo_by_url", "repourls",
                             up.yum_repourls)))

render_check_user_settings(p, up) ==
    LET phase == "prebuild_plugins"
        plugin == "check_user_settings"
    IN  Proc(IfHas(p, phase, plugin, LAMBDA q :
            set_plugin_arg_valid(q, phase, plugin, "flatpak", up.flatpak)))

render_flatpak_update_dockerfile(p, up) ==
    LET phase == "prebuild_plugins"
        plugin == "flatpak_update_dockerfile"
    IN  Proc(IfHas(p, phase, plugin, LAMBDA q :
            set_plugin_arg_valid(q, phase, plugin, "compose_ids", up.compose_ids)))

render_koji(p, up) ==
    LET phase == "prebuild_plugins"
        plugin == "koji"
    IN  Proc(IfHas(p, phase, plugin, LAMBDA q :
            set_plugin_arg_valid(q, phase, plugin, "target", up.koji_target)))

render_bump_release(p, up) ==
    LET phase == "prebuild_plugins"
        plugin == "bump_release"
    IN  Proc(IfHas(p, phase, plugin, LAMBDA q :
            SetIf(Truthy(up.flatpak), q, phase, plugin, "append", Bool(TRUE))))

render_check_and_set_platforms(p, up) ==
    LET phase == "prebuild_plugins"
        plugin == "check_and_set_platforms"
    IN  Proc(IfHas(p, phase, plugin, LAMBDA q :
            SetIf(Truthy(up.koji_target), q, phase, plugin, "koji_target",
                  up.koji_target)))

render_import_image(p, up) ==
    Proc(IfHas(p, "exit_plugins", "import_image", LAMBDA q :
        set_plugin_arg(q, "exit_plugins", "import_image", "imagestream",
                       up.imagestream_name)))

render_inject_parent_image(p, up) ==
    LET phase == "prebuild_plugins"
        plugin == "inject_parent_image"
    IN  Proc(IfHas(p, phase, plugin, LAMBDA q :
            set_plugin_arg_valid(q, phase, plugin, "koji_parent_build",
                                 up.koji_parent_build)))

render_koji_upload(p, up) ==
    LET phase == "postbuild_plugins"
        name == "koji_upload"
    IN  Proc(IfHas(p, phase, name, LAMBDA q0 :
            Then(set_plugin_arg(q0, phase, name, "koji_upload_dir", up.koji_upload_dir),
            LAMBDA q1 :
            Then(set_plugin_arg(q1, phase, name, "platform", up.platform),
            LAMBDA q2 :
            set_plugin_arg(q2, phase, name, "report_multiple_digests", Bool(TRUE))))))

render_pin_operator_digest(p, up) ==
    LET phase == "prebuild_plugins"
        name == "pin_operator_digest"
        replacement_pullspecs == up.operator_bundle_replacement_pullspecs
        modifications_url == up.operator_csv_modifications_url
    IN  Proc(IfHas(p, phase, name, LAMBDA q0 :
            Then(SetIf(Truthy(replacement_pullspecs), q0, phase, name,
                       "replacement_pullspecs", replacement_pullspecs),
            LAMBDA q1 :
            SetIf(Truthy(modifications_url), q1, phase, name,
                  "operator_csv_modifications_url", modifications_url))))

render_export_operator_manifests(p, up) ==
    LET phase == "postbuild_plugins"
        name == "export_operator_manifests"
    IN  Proc(IfHas(p, phase, name, LAMBDA q0 :
            Then(set_plugin_arg(q0, phase, name, "platform", up.platform),
            LAMBDA q1 :
            SetIf(Truthy(up.operator_manifests_extract_platform), q1, phase, name,
                  "operator_manifests_extract_platform",
                  up.operator_manifests_extract_platform))))

\* a changed rule: the target is written only where render_koji has written
\* the target of the prebuild koji plugin
render_koji_tag_build_after_koji(p, up) ==
    LET phase == "exit_plugins"
        plugin == "koji_tag_build"
    IN  Proc(IfHas(p, phase, plugin, LAMBDA q :
            IF \E i \in Named(q._template["prebuild_plugins"], "koji") :
                    /\ "args" \in DOMAIN q._template["prebuild_plugins"][i]
                    /\ "target" \in DOMAIN q._template["prebuild_plugins"][i].args
                    /\ q._template["prebuild_plugins"][i].args.target = up.koji_target
            THEN set_plugin_arg_valid(q, phase, plugin, "target", up.koji_target)
            ELSE R(q, "none")))

render_koji_tag_build(p, up) ==
    LET phase == "exit_plugins"
        plugin == "koji_tag_build"
    IN  Proc(IfHas(p, phase, plugin, LAMBDA q :
            set_plugin_arg_valid(q, phase, plugin, "target", up.koji_target)))

\* Parameters to be used in call to create_worker_build
worker_params ==
    {"component", "git_branch", "git_ref", "git_uri", "koji_task_id",
     "filesystem_koji_task_id", "scratch", "koji_target", "user", "yum_repourls",
     "arrangement_version", "koji_parent_build", "isolated", "reactor_config_map",
     "reactor_config_override", "git_commit_depth"}

\* user_params.to_dict(keys): the projection of the fields onto keys
to_dict(up, keys) == [k \in keys |-> up[k]]

\* dict.pop(key, default)
PopValue(d, key, default) == IF key \in DOMAIN d THEN d[key] ELSE default

\* a changed rule: build_kwargs keeps the key koji_target
render_orchestrate_build_no_rename(p, up) ==
    LET phase == "buildstep_plugins"
        plugin == "orchestrate_build"
        projected == to_dict(up, worker_params)
        renamed == Put(projected, "target", PopValue(projected, "koji_target", None))
        build_kwargs == IF Truthy(up.flatpak)
                        THEN Put(renamed, "flatpak", Bool(TRUE))
                        ELSE renamed
        build_from_ok == Truthy(up.buildroot_is_imagestream) \/ up.build_image.t = "str"
        config_kwargs == IF ~Truthy(up.buildroot_is_imagestream)
                         THEN [build_from |-> Str("image:" \o up.build_image.v)]
                         ELSE EmptyDict
    IN  Proc(IfHas(p, phase, plugin, LAMBDA q0 :
            Then(set_plugin_arg_valid(q0, phase, plugin, "platforms", up.platforms),
            LAMBDA q1 :
            Then(set_plugin_arg(q1, phase, plugin, "build_kwargs", Dict(build_kwargs)),
            LAMBDA q2 :
            \* 'image:' + None raises TypeError
            IF ~build_from_ok THEN R(q2, "TypeError")
            ELSE set_plugin_arg(q2, phase, plugin, "config_kwargs",
                                Dict(config_kwargs))))))

\* a changed rule: build_from is set whatever buildroot_is_imagestream is
render_orchestrate_build_always_from(p, up) ==
    LET phase == "buildstep_plugins"
        plugin == "orchestrate_build"
        projected == to_dict(up, worker_params)
        \* koji_target is passed as target for some reason
        renamed == Put(Drop(projected, "koji_target"), "target",
                       PopValue(projected, "koji_target", None))
        build_kwargs == IF Truthy(up.flatpak)
                        THEN Put(renamed, "flatpak", Bool(TRUE))
                        ELSE renamed
        build_from_ok == up.build_image.t = "str"
        config_kwargs == [build_from |-> Str("image:" \o up.build_image.v)]
    IN  Proc(IfHas(p, phase, plugin, LAMBDA q0 :
            Then(set_plugin_arg_valid(q0, phase, plugin, "platforms", up.platforms),
            LAMBDA q1 :
            Then(set_plugin_arg(q1, phase, plugin, "build_kwargs", Dict(build_kwargs)),
            LAMBDA q2 :
            \* 'image:' + None raises TypeError
            IF ~build_from_ok THEN R(q2, "TypeError")
            ELSE set_plugin_arg(q2, phase, plugin, "config_kwargs",
                                Dict(config_kwargs))))))

render_orchestrate_build(p, up) ==
    LET phase == "buildstep_plugins"
        plugin == "orchestrate_build"
        projected == to_dict(up, worker_params)
        \* koji_target is passed as target for some reason
        renamed == Put(Drop(projected, "koji_target"), "target",
                       PopValue(projected, "koji_target", None))
        build_kwargs == IF Truthy(up.flatpak)
                        THEN Put(renamed, "flatpak", Bool(TRUE))
                        ELSE renamed
        build_from_ok == Truthy(up.buildroot_is_imagestream) \/ up.build_image.t = "str"
        config_kwargs == IF ~Truthy(up.buildroot_is_imagestream)
                         THEN [build_from |-> Str("image:" \o up.build_image.v)]
                         ELSE EmptyDict
    IN  Proc(IfHas(p, phase, plugin, LAMBDA q0 :
            Then(set_plugin_arg_valid(q0, phase, plugin, "platforms", up.platforms),
            LAMBDA q1 :
            Then(set_plugin_arg(q1, phase, plugin, "build_kwargs", Dict(build_kwargs)),
            LAMBDA q2 :
            \* 'image:' + None raises TypeError
            IF ~build_from_ok THEN R(q2, "TypeError")
            ELSE set_plugin_arg(q2, phase, plugin, "config_kwargs",
                                Dict(config_kwargs))))))

render_resolve_composes(p, up) ==
    LET phase == "prebuild_plugins"
        plugin == "resolve_composes"
    IN  Proc(IfHas(p, phase, plugin, LAMBDA q0 :
            Then(set_plugin_arg_valid(q0, phase, plugin, "compose_ids", up.compose_ids),
            LAMBDA q1 :
            Then(set_plugin_arg_valid(q1, phase, plugin, "signing_intent",
                                      up.signing_intent),
            LAMBDA q2 :
            Then(set_plugin_arg_valid(q2, phase, plugin, "koji_target", up.koji_target),
            LAMBDA q3 :
            set_plugin_arg_valid(q3, phase, plugin, "repourls", up.yum_repourls))))))

\* the positions of c in the character sequence s
Positions(s, c) == {i \in 1..Len(s) : s[i] = c}

\* a changed split: s.split(':')[0], what precedes the first ':'
SplitFirst(s) ==
    IF Positions(s, ":") = {} THEN s
    ELSE SubSeq(s, 1, Min(Positions(s, ":")) - 1)

\* s.split(':')[-1]: what follows the last ':' (all of s if it has none)
SplitLast(s) ==
    IF Positions(s, ":") = {} THEN s
    ELSE LET last == CHOOSE i \in Positions(s, ":") : \A j \in Positions(s, ":") : j <= i
         IN  SubSeq(s, last + 1, Len(s))

\* a changed rule: tags_from_yaml is looked at before isolated
render_tag_from_config_yaml_first(p, up) ==
    LET phase == "postbuild_plugins"
        plugin == "tag_from_config"
        unique_tag == Text(SplitLast(up.image_tag.v))
        additional_tags == IF Truthy(up.additional_tags) THEN up.additional_tags.v
                           ELSE <<>>
        vr == Str("{version}-{release}")
        primary == IF up.build_type # BUILD_TYPE_ORCHESTRATOR THEN <<>>
                   ELSE IF Truthy(up.scratch) THEN <<>>
                   ELSE <<vr>>
        floating == IF up.build_type # BUILD_TYPE_ORCHESTRATOR THEN <<>>
                    ELSE IF Truthy(up.scratch) THEN <<>>
                    ELSE IF Truthy(up.tags_from_yaml) THEN additional_tags
                    ELSE IF Truthy(up.isolated) THEN <<>>
                    ELSE <<Str("latest"), Str("{version}")>> \o additional_tags
        tag_suffixes == Dict([unique |-> List(<<unique_tag>>),
                              primary |-> List(primary),
                              floating |-> List(floating)])
    IN  Proc(IfHas(p, phase, plugin, LAMBDA q :
            set_plugin_arg(q, phase, plugin, "tag_suffixes", tag_suffixes)))

render_tag_from_config(p, up) ==
    LET phase == "postbuild_plugins"
        plugin == "tag_from_config"
        unique_tag == Text(SplitLast(up.image_tag.v))
        \* additional_tags or set(): the tags in the order the set iterates
        additional_tags == IF Truthy(up.additional_tags) THEN up.additional_tags.v
                           ELSE <<>>
        vr == Str("{version}-{release}")
        primary == IF up.build_type # BUILD_TYPE_ORCHESTRATOR THEN <<>>
                   ELSE IF Truthy(up.scratch) THEN <<>>
                   ELSE <<vr>>
        floating == IF up.build_type # BUILD_TYPE_ORCHESTRATOR THEN <<>>
                    ELSE IF Truthy(up.scratch) THEN <<>>
                    ELSE IF Truthy(up.isolated) THEN <<>>
                    ELSE IF Truthy(up.tags_from_yaml) THEN additional_tags
                    ELSE <<Str("latest"), Str("{version}")>> \o additional_tags
        tag_suffixes == Dict([unique |-> List(<<unique_tag>>),
                              primary |-> List(primary),
                              floating |-> List(floating)])
    IN  Proc(IfHas(p, phase, plugin, LAMBDA q :
            set_plugin_arg(q, phase, plugin, "tag_suffixes", tag_suffixes)))

render_pull_base_image(p, up) ==
    LET phase == "prebuild_plugins"
        plugin == "pull_base_image"
    IN  Proc(SetIf(Truthy(up.parent_images_digests), p, phase, plugin,
                   "parent_images_digests", up.parent_images_digests))

render_koji_delegate(p, up) ==
    LET phase == "prebuild_plugins"
        plugin == "koji_delegate"
    IN  Proc(IfHas(p, phase, plugin, LAMBDA q :
            SetIf(Truthy(up.triggered_after_koji_task), q, phase, plugin,
                  "triggered_after_koji_task", up.triggered_after_koji_task)))

render_tag_and_push(p, up) ==
    LET phase == "postbuild_plugins"
        plugin == "tag_and_push"
    IN  Proc(IfHas(p, phase, plugin, LAMBDA q :
            SetIf(Truthy(up.koji_target), q, phase, plugin, "koji_target",
                  up.koji_target)))

render_fetch_sources(p, up) ==
    LET phase == "prebuild_plugins"
        plugin == "fetch_sources"
    IN  Proc(IfHas(p, phase, plugin, LAMBDA q0 :
            Then(SetIf(Truthy(up.sources_for_koji_build_nvr), q0, phase, plugin,
                       "koji_build_nvr", up.sources_for_koji_build_nvr),
            LAMBDA q1 :
            Then(SetIf(Truthy(up.sources_for_koji_build_id), q1, phase, plugin,
                       "koji_build_id", up.sources_for_koji_build_id),
            LAMBDA q2 :
            SetIf(Truthy(up.signing_intent), q2, phase, plugin,
                  "signing_intent", up.signing_intent)))))

render_download_remote_source(p, up) ==
    LET phase == "prebuild_plugins"
        plugin == "download_remote_source"
    IN  Proc(IfHas(p, phase, plugin, LAMBDA q :
            set_plugin_arg(q, phase, plugin, "remote_sources", up.remote_sources)))

render_resolve_remote_source(p, up) ==
    LET phase == "prebuild_plugins"
        plugin == "resolve_remote_source"
    IN  Proc(IfHas(p, phase, plugin, LAMBDA q :
            set_plugin_arg_valid(q, phase, plugin, "dependency_replacements",
                                 up.dependency_replacements)))

-----------------------------------------------------------------------------
(* PluginsConfigurationBase.render_customizations *)

\* dict.get(key, default)
Get(d, key, default) == IF key \in DOMAIN d THEN d[key] ELSE default

\* except KeyError: logger.info(...)
ExceptKeyError(r) == IF r.err = "KeyError" THEN R(r.pt, "none") ELSE r

\* a changed loop: the first directive without plugin_type or plugin_name
\* ends it
RECURSIVE DisableFromAbort(_, _, _)
DisableFromAbort(p, disable_plugins, i) ==
    IF i > Len(disable_plugins) THEN R(p, "none")
    ELSE IF ~({"plugin_type", "plugin_name"} \subseteq DOMAIN disable_plugins[i])
    THEN R(p, "none")
    ELSE Then(ExceptKeyError(remove_plugin(p, disable_plugins[i].plugin_type,
                                           disable_plugins[i].plugin_name)),
              LAMBDA q : DisableFromAbort(q, disable_plugins, i + 1))

\* for plugin in disable_plugins, from the i-th on: a directive without
\* plugin_type or plugin_name raises KeyError before remove_plugin is called;
\* KeyError (also from a phase the template lacks) is logged and the loop goes on
RECURSIVE DisableFrom(_, _, _)
DisableFrom(p, disable_plugins, i) ==
    IF i > Len(disable_plugins) THEN R(p, "none")
    ELSE IF ~({"plugin_type", "plugin_name"} \subseteq DOMAIN disable_plugins[i])
    THEN DisableFrom(p, disable_plugins, i + 1)
    ELSE Then(ExceptKeyError(remove_plugin(p, disable_plugins[i].plugin_type,
                                           disable_plugins[i].plugin_name)),
              LAMBDA q : DisableFrom(q, disable_plugins, i + 1))

\* for plugin in enable_plugins, from the i-th on; the plugin_args object of
\* the i-th directive is handed to add_plugin
RECURSIVE EnableFrom(_, _, _)
EnableFrom(p, enable_plugins, i) ==
    IF i > Len(enable_plugins) THEN R(p, "none")
    ELSE IF ~({"plugin_type", "plugin_name", "plugin_args"}
                \subseteq DOMAIN enable_plugins[i])
    THEN EnableFrom(p, enable_plugins, i + 1)
    ELSE Then(ExceptKeyError(add_plugin(p, enable_plugins[i].plugin_type,
                                        enable_plugins[i].plugin_name,
                                        ArgsObj(enable_plugins[i].plugin_args, i))),
              LAMBDA q : EnableFrom(q, enable_plugins, i + 1))

\* the disable half, the customization document being loaded
DisableAll(p) ==
    IF Len(Get(p._customize_conf, "disable_plugins", <<>>)) = 0 THEN R(p, "none")
    ELSE DisableFrom(p, Get(p._customize_conf, "disable_plugins", <<>>), 1)

\* the enable half
EnableAll(p) ==
    IF Len(Get(p._customize_conf, "enable_plugins", <<>>)) = 0 THEN R(p, "none")
    ELSE EnableFrom(p, Get(p._customize_conf, "enable_plugins", <<>>), 1)

\* a changed pass: the enable half runs before the disable half
CustomizeEnableFirst(c) ==
    IF ~Ok(c) THEN c
    ELSE IF c.pt._customize_conf = None THEN R(c.pt, "AttributeError")
    ELSE Proc(Then(EnableAll(c.pt), DisableAll))

\* render_customizations, c being the outcome of self.pt.customize_conf
CustomizeWith(c) ==
    IF ~Ok(c) THEN c
    ELSE IF c.pt._customize_conf = None THEN R(c.pt, "AttributeError")
    ELSE Proc(Then(DisableAll(c.pt), EnableAll))

render_customizations(p) == CustomizeWith(customize_conf(p))

-----------------------------------------------------------------------------
(* The two render() methods: the statements of each body, in order *)

\* PluginsConfiguration.render
ImageRenderBody ==
    <<"validate",
      "render_customizations",
      "render_add_filesystem",
      "render_add_labels_in_dockerfile",
      "render_add_yum_repo_by_url",
      "render_bump_release",
      "render_check_and_set_platforms",
      "render_check_user_settings",
      "render_flatpak_update_dockerfile",
      "render_import_image",
      "render_inject_parent_image",
      "render_koji",
      "render_koji_tag_build",
      "render_koji_upload",
      "render_pin_operator_digest",
      "render_export_operator_manifests",
      "render_orchestrate_build",
      "render_pull_base_image",
      "render_resolve_composes",
      "render_tag_from_config",
      "render_koji_delegate",
      "render_download_remote_source",
      "render_resolve_remote_source",
      "render_add_image_content_manifest",
      "to_json">>

\* a changed body: the bump_release call the source has commented out is made
SourceRenderBodyWithBumpRelease ==
    <<"validate",
      "render_customizations",
      "render_bump_release",
      "render_fetch_sources",
      "render_koji",
      "render_koji_tag_build",
      "render_tag_and_push",
      "to_json">>

\* SourceContainerPluginsConfiguration.render
SourceRenderBody ==
    <<"validate",
      "render_customizations",
      "render_fetch_sources",
      "render_koji",
      "render_koji_tag_build",
      "render_tag_and_push",
      "to_json">>

\* s with its i-th and j-th elements exchanged
Swap(s, i, j) == [k \in 1..Len(s) |-> IF k = i THEN s[j] ELSE IF k = j THEN s[i] ELSE s[k]]

\* s with its i-th element moved to position j > i
MoveLater(s, i, j) ==
    [k \in 1..Len(s) |-> IF k < i \/ k > j THEN s[k] ELSE IF k = j THEN s[i] ELSE s[k + 1]]

\* a changed body: the customization pass runs after the rules
RenderBodyCustomizeLast(f) ==
    MoveLater(IF f = "image" THEN ImageRenderBody ELSE SourceRenderBody, 2,
              Len(IF f = "image" THEN ImageRenderBody ELSE SourceRenderBody) - 1)

\* a changed body: validate() is called after the customization pass
RenderBodyValidateSecond(f) ==
    Swap(IF f = "image" THEN ImageRenderBody ELSE SourceRenderBody, 1, 2)

RenderBody(f) == IF f = "image" THEN ImageRenderBody ELSE SourceRenderBody

\* the rules render() runs, in order
Rules(f) ==
    SelectSeq(RenderBody(f),
              LAMBDA stmt : stmt \notin {"validate", "render_customizations", "to_json"})

\* the (phase, plugin) each rule configures
RuleTarget(rule) ==
    CASE rule = "render_add_filesystem" -> <<"prebuild_plugins", "add_filesystem">>
      [] rule = "render_add_image_content_manifest" ->
            <<"prebuild_plugins", "add_image_content_manifest">>
      [] rule = "render_add_labels_in_dockerfile" ->
            <<"prebuild_plugins", "add_labels_in_dockerfile">>
      [] rule = "render_add_yum_repo_by_url" -> <<"prebuild_plugins", "add_yum_repo_by_url">>
      [] rule = "render_bump_release" -> <<"prebuild_plugins", "bump_release">>
      [] rule = "render_check_and_set_platforms" ->
            <<"prebuild_plugins", "check_and_set_platforms">>
      [] rule = "render_check_user_settings" -> <<"prebuild_plugins", "check_user_settings">>
      [] rule = "render_flatpak_update_dockerfile" ->
            <<"prebuild_plugins", "flatpak_update_dockerfile">>
      [] rule = "render_import_image" -> <<"exit_plugins", "import_image">>
      [] rule = "render_inject_parent_image" -> <<"prebuild_plugins", "inject_parent_image">>
      [] rule = "render_koji" -> <<"prebuild_plugins", "koji">>
      [] rule = "render_koji_tag_build" -> <<"exit_plugins", "koji_tag_build">>
      [] rule = "render_koji_upload" -> <<"postbuild_plugins", "koji_upload">>
      [] rule = "render_pin_operator_digest" -> <<"prebuild_plugins", "pin_operator_digest">>
      [] rule = "render_export_operator_manifests" ->
            <<"postbuild_plugins", "export_operator_manifests">>
      [] rule = "render_orchestrate_build" -> <<"buildstep_plugins", "orchestrate_build">>
      [] rule = "render_pull_base_image" -> <<"prebuild_plugins", "pull_base_image">>
      [] rule = "render_resolve_composes" -> <<"prebuild_plugins", "resolve_composes">>
      [] rule = "render_tag_from_config" -> <<"postbuild_plugins", "tag_from_config">>
      [] rule = "render_koji_delegate" -> <<"prebuild_plugins", "koji_delegate">>
      [] rule = "render_download_remote_source" ->
            <<"prebuild_plugins", "download_remote_source">>
      [] rule = "render_resolve_remote_source" ->
            <<"prebuild_plugins", "resolve_remote_source">>
      [] rule = "render_tag_and_push" -> <<"postbuild_plugins", "tag_and_push">>
      [] rule = "render_fetch_sources" -> <<"prebuild_plugins", "fetch_sources">>

\* user_params.validate(): raises when the parameters are inconsistent
validate(p, ok) == IF ok THEN R(p, "none") ELSE R(p, "OsbsValidationException")

\* the rule (a method of PluginsConfigurationBase) of that name
ApplyRule(rule, p, up) ==
    CASE rule = "render_add_filesystem" -> render_add_filesystem(p, up)
      [] rule = "render_add_image_content_manifest" ->
            render_add_image_content_manifest(p, up)
      [] rule = "render_add_labels_in_dockerfile" -> render_add_labels_in_dockerfile(p, up)
      [] rule = "render_add_yum_repo_by_url" -> render_add_yum_repo_by_url(p, up)
      [] rule = "render_bump_release" -> render_bump_release(p, up)
      [] rule = "render_check_and_set_platforms" -> render_check_and_set_platforms(p, up)
      [] rule = "render_check_user_settings" -> render_check_user_settings(p, up)
      [] rule = "render_flatpak_update_dockerfile" ->
            render_flatpak_update_dockerfile(p, up)
      [] rule = "render_import_image" -> render_import_image(p, up)
      [] rule = "render_inject_parent_image" -> render_inject_parent_image(p, up)
      [] rule = "render_koji" -> render_koji(p, up)
      [] rule = "render_koji_tag_build" -> render_koji_tag_build(p, up)
      [] rule = "render_koji_upload" -> render_koji_upload(p, up)
      [] rule = "render_pin_operator_digest" -> render_pin_operator_digest(p, up)
      [] rule = "render_export_operator_manifests" ->
            render_export_operator_manifests(p, up)
      [] rule = "render_orchestrate_build" -> render_orchestrate_build(p, up)
      [] rule = "render_pull_base_image" -> render_pull_base_image(p, up)
      [] rule = "render_resolve_composes" -> render_resolve_composes(p, up)
      [] rule = "render_tag_from_config" -> render_tag_from_config(p, up)
      [] rule = "render_koji_delegate" -> render_koji_delegate(p, up)
      [] rule = "render_download_remote_source" -> render_download_remote_source(p, up)
      [] rule = "render_resolve_remote_source" -> render_resolve_remote_source(p, up)
      [] rule = "render_tag_and_push" -> render_tag_and_push(p, up)
      [] rule = "render_fetch_sources" -> render_fetch_sources(p, up)

\* one statement of a render() body
Statement(stmt, p, up, ok) ==
    CASE stmt = "validate" -> validate(p, ok)
      [] stmt = "render_customizations" -> render_customizations(p)
      [] stmt = "to_json" -> to_json(p)
      [] OTHER -> ApplyRule(stmt, p, up)

-----------------------------------------------------------------------------
(* User parameters: the fields the rules read *)

BoolFields == {"flatpak", "scratch", "isolated", "tags_from_yaml", "buildroot_is_imagestream"}
IntFields ==
    {"filesystem_koji_task_id", "koji_task_id", "git_commit_depth",
     "sources_for_koji_build_id", "triggered_after_koji_task", "arrangement_version"}
ListFields ==
    {"yum_repourls", "compose_ids", "platforms", "additional_tags",
     "dependency_replacements", "remote_sources"}
DictFields == {"parent_images_digests", "operator_bundle_replacement_pullspecs"}
StrFields ==
    {"platform", "koji_target", "release", "imagestream_name", "koji_parent_build",
     "koji_upload_dir", "operator_csv_modifications_url",
     "operator_manifests_extract_platform", "build_image", "signing_intent",
     "build_type", "component", "git_branch", "git_ref", "git_uri", "user",
     "reactor_config_map", "reactor_config_override", "sources_for_koji_build_nvr",
     "customize_conf"}
TextFields == {"image_tag"}
Fields == BoolFields \cup IntFields \cup ListFields \cup DictFields \cup StrFields
            \cup TextFields

\* a set value of field f that is true in Python, named after the field
TruthyValue(f) ==
    CASE f \in BoolFields -> Bool(TRUE)
      [] f \in IntFields -> Num(1)
      [] f \in ListFields -> List(<<Str(f)>>)
      [] f \in DictFields -> Dict([key |-> Str(f)])
      [] f = "build_type" -> BUILD_TYPE_ORCHESTRATOR
      [] f = "image_tag" -> Text(<<"m", "y", "i", "m", "a", "g", "e", ":", "7", ".", "1", "-", "3">>)
      [] OTHER -> Str(f)

\* a set value of field f that is false in Python
FalsyValue(f) ==
    CASE f \in BoolFields -> Bool(FALSE)
      [] f \in IntFields -> Num(0)
      [] f \in ListFields -> List(<<>>)
      [] f \in DictFields -> Dict(EmptyDict)
      [] f \in TextFields -> Text(<<>>)
      [] OTHER -> Str("")

\* the fields every parameter object of the model sets
AlwaysSet == {"build_type", "image_tag", "build_image", "customize_conf"}

\* only the required fields set
BaseParams == [f \in Fields |-> IF f \in AlwaysSet THEN TruthyValue(f) ELSE None]

\* every field set
FullParams == [f \in Fields |-> TruthyValue(f)]

\* BaseParams and FullParams with one field changed
OneFieldParams ==
    {[b EXCEPT ![f] = x] :
        b \in {BaseParams, FullParams},
        f \in Fields \ AlwaysSet,
        x \in {None}} \cup
    UNION {{[b EXCEPT ![f] = FalsyValue(f)], [b EXCEPT ![f] = TruthyValue(f)]} :
        b \in {BaseParams, FullParams}, f \in Fields \ AlwaysSet}

ImageTags ==
    {<<"m", "y", "i", "m", "a", "g", "e", ":", "7", ".", "1", "-", "3">>,
     <<"r", ":", "5", "/", "i", ":", "v", "1">>,
     <<"n", "o", "t", "a", "g">>}

AdditionalTags ==
    {None, List(<<>>), List(<<Str("extra")>>), List(<<Str("extra"), Str("stable")>>)}

\* the inputs of the tag_from_config rule, in every combination
TagParams ==
    {[BaseParams EXCEPT !.build_type = bt, !.scratch = sc, !.isolated = iso,
                        !.tags_from_yaml = yaml, !.additional_tags = tags,
                        !.image_tag = Text(tag)] :
        bt \in {BUILD_TYPE_ORCHESTRATOR, Str("worker")},
        sc \in {None, Bool(TRUE)},
        iso \in {Bool(FALSE), Bool(TRUE)},
        yaml \in {None, Bool(TRUE)},
        tags \in AdditionalTags,
        tag \in ImageTags}

-----------------------------------------------------------------------------
(* Template files *)

E(name) == [name |-> name]
EA(name, args) == [name |-> name, args |-> args]
EAR(name, args) == [name |-> name, args |-> args, required |-> FALSE]

\* an orchestrator template: every plugin a rule of the image render targets
TplOrchestrator ==
    [prebuild_plugins |->
        <<EA("reactor_config", [config_path |-> Str("/config")]),
          EA("add_filesystem", EmptyDict),
          E("inject_parent_image"),
          EA("pull_base_image", [check_platforms |-> Bool(TRUE)]),
          E("bump_release"),
          E("add_labels_in_dockerfile"),
          E("koji_parent"),
          E("check_and_set_platforms"),
          E("check_user_settings"),
          E("flatpak_update_dockerfile"),
          EA("koji", [target |-> Str("preset")]),
          E("add_yum_repo_by_url"),
          E("resolve_composes"),
          E("pin_operator_digest"),
          E("koji_delegate"),
          E("download_remote_source"),
          E("resolve_remote_source"),
          E("add_image_content_manifest")>>,
     buildstep_plugins |-> <<E("orchestrate_build")>>,
     prepublish_plugins |-> <<>>,
     postbuild_plugins |->
        <<E("koji_upload"),
          EAR("export_operator_manifests", EmptyDict),
          E("tag_from_config"),
          EA("compress", [method |-> Str("gzip")])>>,
     exit_plugins |->
        <<E("import_image"),
          E("koji_tag_build"),
          EAR("store_metadata_in_osv3", EmptyDict)>>]

\* a template with few plugins, without pull_base_image and without
\* the prepublish and exit phases
TplSparse ==
    [prebuild_plugins |->
        <<EA("add_filesystem", [repos |-> List(<<Str("preset")>>)]),
          E("koji")>>,
     buildstep_plugins |-> <<E("imagebuilder")>>,
     postbuild_plugins |->
        <<E("compress"),
          E("tag_from_config")>>]

\* a source container template
TplSource ==
    [prebuild_plugins |->
        <<E("fetch_sources"),
          E("bump_release")>>,
     buildstep_plugins |-> <<E("source_container")>>,
     postbuild_plugins |->
        <<EA("tag_and_push", [koji_target |-> Str("preset")]),
          E("compress")>>,
     exit_plugins |->
        <<E("koji_import"),
          E("koji_tag_build"),
          EAR("store_metadata_in_osv3", EmptyDict)>>]

Json(data) == [kind |-> "json", data |-> data]
Missing == [kind |-> "missing"]
Invalid == [kind |-> "invalid"]
\* a file that holds the JSON value null
Null == [kind |-> "null"]

-----------------------------------------------------------------------------
(* Customization files *)

Disable(type, name) == [plugin_type |-> type, plugin_name |-> name]
Enable(type, name, args) == [plugin_type |-> type, plugin_name |-> name, plugin_args |-> args]

\* the most directives a generated customization list holds
MaxDirectives == 2

\* the sequences over S of length at most n
SeqsUpTo(S, n) == UNION {[1..k -> S] : k \in 0..n}

\* disable directives for a source container template: a plugin of the
\* template, the malformed entry without plugin_name, and a phase the
\* template lacks
DisableAlphabet ==
    {Disable("prebuild_plugins", "fetch_sources"),
     [plugin_type |-> "prebuild_plugins"],
     Disable("prepublish_plugins", "fetch_sources")}

\* enable directives: a plugin of the template with two different args, a
\* plugin the template lacks, and an entry without plugin_args
EnableAlphabet ==
    {Enable("prebuild_plugins", "fetch_sources", [vendor |-> Str("site")]),
     Enable("prebuild_plugins", "fetch_sources", EmptyDict),
     Enable("prebuild_plugins", "koji", [hub |-> Str("site")]),
     [plugin_type |-> "exit_plugins", plugin_name |-> "koji_tag_build"]}

GeneratedCustomizations ==
    {[disable_plugins |-> d, enable_plugins |-> e] :
        d \in SeqsUpTo(DisableAlphabet, MaxDirectives),
        e \in SeqsUpTo(EnableAlphabet, MaxDirectives)}

\* customization documents for the image templates
ImageCustomizations ==
    {EmptyDict,
     [disable_plugins |-> <<>>, enable_plugins |-> <<>>],
     [disable_plugins |-> <<Disable("prebuild_plugins", "pull_base_image")>>],
     [disable_plugins |-> <<Disable("prebuild_plugins", "koji"),
                            Disable("postbuild_plugins", "tag_from_config")>>,
      enable_plugins |-> <<Enable("exit_plugins", "koji_tag_build", EmptyDict),
                           Enable("prebuild_plugins", "koji_delegate",
                                  [site |-> Str("x")])>>],
     [enable_plugins |-> <<Enable("prebuild_plugins", "pull_base_image", EmptyDict),
                           Enable("prebuild_plugins", "check_and_set_platforms",
                                  [koji_target |-> Str("site")])>>],
     [disable_plugins |-> <<Disable("prebuild_plugins", "add_filesystem")>>,
      enable_plugins |-> <<Enable("prebuild_plugins", "add_filesystem",
                                  [repos |-> List(<<Str("site")>>)])>>],
     [disable_plugins |-> <<[plugin_name |-> "koji"],
                            Disable("prebuild_plugins", "koji")>>,
      enable_plugins |-> <<[plugin_type |-> "prebuild_plugins",
                            plugin_args |-> EmptyDict],
                           [plugin_name |-> "koji", plugin_args |-> EmptyDict],
                           Enable("postbuild_plugins", "koji_upload", EmptyDict)>>],
     [disable_plugins |-> <<Disable("exit_plugins", "koji_tag_build"),
                            Disable("nosuch_plugins", "koji")>>,
      enable_plugins |-> <<Enable("nosuch_plugins", "koji", EmptyDict),
                           Enable("exit_plugins", "import_image", EmptyDict)>>],
     [disable_plugins |-> <<Disable("nosuch_plugins", "koji"),
                            Disable("prebuild_plugins", "koji")>>,
      enable_plugins |-> <<Enable("nosuch_plugins", "koji", EmptyDict),
                           Enable("postbuild_plugins", "koji_import", EmptyDict)>>]}

-----------------------------------------------------------------------------
(* The renderers the model constructs *)

Input(f, up, tpl, cust) == [flavor |-> f, up |-> up, template |-> tpl, customize |-> cust]

\* user parameters whose customize_conf attribute is None, or is not there
NoPathParams == {[FullParams EXCEPT !.customize_conf = None], Drop(FullParams, "customize_conf")}

Inputs ==
    \* image builds of the orchestrator template, for all the parameters
    {Input("image", up, Json(TplOrchestrator), Missing) :
        up \in OneFieldParams \cup TagParams}
    \cup
    \* image builds with a customization file
    {Input("image", up, Json(tpl), Json(cust)) :
        up \in {BaseParams, FullParams},
        tpl \in {TplOrchestrator, TplSparse},
        cust \in ImageCustomizations}
    \cup
    \* source container builds with a customization file
    {Input("source", FullParams, Json(TplSource), Json(cust)) :
        cust \in GeneratedCustomizations}
    \cup
    {Input("source", BaseParams, Json(tpl), Json(cust)) :
        tpl \in {TplSource, TplSparse},
        cust \in ImageCustomizations}
    \cup
    \* files that are not there, or are not JSON
    {Input(f, FullParams, tpl, cust) :
        f \in {"image", "source"},
        tpl \in {Missing, Invalid, Null, Json(TplSource)},
        cust \in {Missing, Invalid, Null, Json(EmptyDict),
                  Json([disable_plugins |-> <<Disable("prebuild_plugins", "koji")>>]),
                  Json([enable_plugins |-> <<[plugin_name |-> "koji"]>>]),
                  Json([enable_plugins |->
                            <<Enable("prebuild_plugins", "koji", [hub |-> Str("site")])>>])}}
    \cup
    \* no customization path
    {Input(f, up, Json(TplSource), cust) :
        f \in {"image", "source"},
        up \in NoPathParams,
        cust \in {Missing,
                  Json([disable_plugins |-> <<Disable("prebuild_plugins", "fetch_sources")>>])}}

\* PluginsConfigurationBase.__init__
customize_conf_path(up) ==
    IF "customize_conf" \in DOMAIN up THEN up.customize_conf ELSE None

NoCall == [op |-> "none"]

Init ==
    \E i \in Inputs :
        /\ flavor = i.flavor
        /\ user_params = i.up
        /\ valid \in BOOLEAN
        /\ files = [template |-> i.template, customize |-> i.customize]
        /\ pt = NewPluginsTemplate(customize_conf_path(i.up))
        /\ pc = "idle"
        /\ step = 0
        /\ output = None
        /\ error = "none"
        /\ call = NoCall
        /\ pre = pt

\* the caller calls render()
Render ==
    /\ pc = "idle"
    /\ pc' = "render"
    /\ step' = 1
    /\ UNCHANGED <<flavor, user_params, valid, files, pt, output, error, call, pre>>

\* the next statement of the body has run with outcome r; an exception
\* leaves render()
Continue(r) ==
    /\ pt' = r.pt
    /\ IF Ok(r)
       THEN /\ step' = step + 1
            /\ UNCHANGED <<pc, error>>
       ELSE /\ pc' = "raised"
            /\ error' = r.err
            /\ UNCHANGED step

Step ==
    /\ pc = "render"
    /\ step < Len(RenderBody(flavor))
    /\ Continue(Statement(RenderBody(flavor)[step], pt, user_params, valid))
    /\ UNCHANGED <<flavor, user_params, valid, files, output, call, pre>>

\* return self.pt.to_json(), r being the outcome of to_json
Finish(r) ==
    /\ pt' = r.pt
    /\ IF Ok(r)
       THEN /\ pc' = "returned"
            /\ output' = r.ret
            /\ UNCHANGED error
       ELSE /\ pc' = "raised"
            /\ error' = r.err
            /\ UNCHANGED output

Return ==
    /\ pc = "render"
    /\ step = Len(RenderBody(flavor))
    /\ Finish(Statement(RenderBody(flavor)[step], pt, user_params, valid))
    /\ UNCHANGED <<flavor, user_params, valid, files, step, call, pre>>

Next == Render \/ Step \/ Return

Spec == Init /\ [][Next]_vars

-----------------------------------------------------------------------------
(* The PluginsTemplate methods called one after another on one object *)

\* the most calls made on the object
MaxCalls == 2

DocPhases == {"prebuild_plugins", "postbuild_plugins", "exit_plugins"}
DocNames == {"koji", "compress"}
DocArgs == {EmptyDict, [target |-> Str("site")]}
DocKeys == {"target", "hub"}
DocValues == {None, Bool(FALSE), Num(0), List(<<>>), Str("f28")}

\* templates without an exit phase; the second lists koji twice in a phase
DocTemplates ==
    {[prebuild_plugins |-> <<EA("koji", [target |-> Str("preset")]), E("squash")>>,
      postbuild_plugins |-> <<>>],
     [prebuild_plugins |-> <<E("squash"), EAR("compress", EmptyDict), E("koji")>>,
      postbuild_plugins |-> <<EA("koji", [target |-> Str("preset")]), E("compress"),
                              E("koji")>>]}

\* the template file: one of the templates, no file, a file that is not JSON,
\* or a file that holds null
DocFiles == {Json(tpl) : tpl \in DocTemplates} \cup {Missing, Invalid, Null}

DocInit ==
    \E file \in DocFiles :
        /\ flavor = "image"
        /\ user_params = BaseParams
        /\ valid = TRUE
        /\ files = [template |-> file, customize |-> Missing]
        /\ pt = NewPluginsTemplate(None)
        /\ pc = "api"
        /\ step = 0
        /\ output = None
        /\ error = "none"
        /\ call = NoCall
        /\ pre = pt

\* the call c has had outcome r and returned x
Called(c, r, x) ==
    /\ pc = "api"
    /\ step < MaxCalls
    /\ pt' = r.pt
    /\ error' = r.err
    /\ output' = x
    /\ call' = c
    /\ pre' = pt
    /\ step' = step + 1
    /\ UNCHANGED <<flavor, user_params, valid, files, pc>>

CallRemovePlugin ==
    \E phase \in DocPhases, name \in DocNames :
        Called([op |-> "remove_plugin", phase |-> phase, name |-> name],
               remove_plugin(pt, phase, name), None)

CallAddPlugin ==
    \E phase \in DocPhases, name \in DocNames, args \in DocArgs :
        Called([op |-> "add_plugin", phase |-> phase, name |-> name, args |-> args],
               add_plugin(pt, phase, name, ArgsObj(args, 0)), None)

\* the entry get_plugin_conf returned, None if it raised
EntryOf(r, phase) == IF Ok(r) THEN PlainEntry(r.pt._template[phase][r.ret]) ELSE None

CallGetPluginConf ==
    \E phase \in DocPhases, name \in DocNames :
        Called([op |-> "get_plugin_conf", phase |-> phase, name |-> name],
               get_plugin_conf(pt, phase, name),
               EntryOf(get_plugin_conf(pt, phase, name), phase))

\* the boolean a method returned, None if it raised
BoolOf(r) == IF Ok(r) THEN Bool(r.ret) ELSE None

CallHasPluginConf ==
    \E phase \in DocPhases, name \in DocNames :
        Called([op |-> "has_plugin_conf", phase |-> phase, name |-> name],
               has_plugin_conf(pt, phase, name),
               BoolOf(has_plugin_conf(pt, phase, name)))

CallSetPluginArg ==
    \E phase \in DocPhases, name \in DocNames, key \in DocKeys, value \in DocValues :
        Called([op |-> "set_plugin_arg", phase |-> phase, name |-> name,
                key |-> key, value |-> value],
               set_plugin_arg(pt, phase, name, key, value), None)

CallSetPluginArgValid ==
    \E phase \in DocPhases, name \in DocNames, key \in DocKeys, value \in DocValues :
        Called([op |-> "set_plugin_arg_valid", phase |-> phase, name |-> name,
                key |-> key, value |-> value],
               set_plugin_arg_valid(pt, phase, name, key, value),
               BoolOf(set_plugin_arg_valid(pt, phase, name, key, value)))

DocNext ==
    \/ CallRemovePlugin
    \/ CallAddPlugin
    \/ CallGetPluginConf
    \/ CallHasPluginConf
    \/ CallSetPluginArg
    \/ CallSetPluginArgValid

SpecDoc == DocInit /\ [][DocNext]_vars

-----------------------------------------------------------------------------
(* Properties of render() *)

SeqRange(q) == {q[i] : i \in 1..Len(q)}

\* the names of the entries of a phase, in order
Names(lst) == [i \in 1..Len(lst) |-> lst[i].name]

\* doc lists plugin name in phase
Lists(doc, phase, name) == phase \in DOMAIN doc /\ name \in SeqRange(Names(doc[phase]))

\* the customization document render() works with
EffectiveCustomization ==
    IF pt._customize_conf_path # None /\ files.customize.kind = "json"
    THEN files.customize.data
    ELSE EmptyDict

\* the document of the object p: its cached template, the file's before the load
\* (without phases when the file cannot be loaded)
DocOf(p) ==
    IF p._template # None THEN p._template
    ELSE IF files.template.kind = "json" THEN files.template.data
    ELSE EmptyDict

\* the directives with all their keys that name a phase of the template
DisableDirectives ==
    {d \in SeqRange(Get(EffectiveCustomization, "disable_plugins", <<>>)) :
        /\ {"plugin_type", "plugin_name"} \subseteq DOMAIN d
        /\ d.plugin_type \in DOMAIN files.template.data}

EnableDirectives ==
    {d \in SeqRange(Get(EffectiveCustomization, "enable_plugins", <<>>)) :
        /\ {"plugin_type", "plugin_name", "plugin_args"} \subseteq DOMAIN d
        /\ d.plugin_type \in DOMAIN files.template.data}

Enabled(phase, name) ==
    \E d \in EnableDirectives : d.plugin_type = phase /\ d.plugin_name = name

\* the rule has nothing left to write: its arguments are in the output
RuleArgsIn(rule, out) == Plain(DocOf(ApplyRule(rule, pt, user_params).pt)) = out

\* a rule is about to run
AtRule ==
    /\ pc = "render"
    /\ RenderBody(flavor)[step] \notin {"validate", "render_customizations", "to_json"}

\* C1, as stated: when a rule runs the customization pass is over; in the
\* output of a render every plugin an enable_plugins directive added is
\* there with the arguments of the rule that targets it, and every plugin a
\* disable_plugins directive removed is absent.
C1_DisabledAlwaysAbsent ==
    /\ AtRule => pt._customize_conf # None
    /\ pc = "returned" =>
        /\ \A d \in EnableDirectives :
            /\ Lists(output, d.plugin_type, d.plugin_name)
            /\ \A rule \in SeqRange(Rules(flavor)) :
                RuleTarget(rule) = <<d.plugin_type, d.plugin_name>> => RuleArgsIn(rule, output)
        /\ \A d \in DisableDirectives :
            ~Lists(output, d.plugin_type, d.plugin_name)

\* C1, amended: the same, the removed plugin being absent unless an
\* enable_plugins directive of the same document adds it back.
C1_CustomizationBeforeRules ==
    /\ AtRule => pt._customize_conf # None
    /\ pc = "returned" =>
        /\ \A d \in EnableDirectives :
            /\ Lists(output, d.plugin_type, d.plugin_name)
            /\ \A rule \in SeqRange(Rules(flavor)) :
                RuleTarget(rule) = <<d.plugin_type, d.plugin_name>> => RuleArgsIn(rule, output)
        /\ \A d \in DisableDirectives :
            ~Enabled(d.plugin_type, d.plugin_name) =>
                ~Lists(output, d.plugin_type, d.plugin_name)

\* the arguments of the plugin in a document
ArgsOf(doc, phase, name) ==
    Get(doc[phase][Min(Named(doc[phase], name))], "args", EmptyDict)

\* a render returned whose customization added a plugin the template lacks,
\* to which a rule then gave an argument the directive did not have, and
\* removed a plugin of the template
C1_Witness ==
    /\ pc = "returned"
    /\ \E d \in EnableDirectives :
        /\ ~Lists(files.template.data, d.plugin_type, d.plugin_name)
        /\ \E rule \in SeqRange(Rules(flavor)) :
            RuleTarget(rule) = <<d.plugin_type, d.plugin_name>>
        /\ DOMAIN ArgsOf(output, d.plugin_type, d.plugin_name) # DOMAIN d.plugin_args
    /\ \E d \in DisableDirectives :
        /\ Lists(files.template.data, d.plugin_type, d.plugin_name)
        /\ ~Lists(output, d.plugin_type, d.plugin_name)

\* the PluginsTemplate object as __init__ leaves it
Fresh == NewPluginsTemplate(customize_conf_path(user_params))

\* C2: validate() is the first thing render does; when it fails the
\* validation error reaches the caller, no file has been read, there is no
\* document and nothing is returned.
C2_ValidateFirst ==
    ~valid =>
        /\ pt = Fresh
        /\ output = None
        /\ \/ pc = "idle" /\ error = "none"
           \/ pc = "render" /\ step = 1 /\ error = "none"
           \/ pc = "raised" /\ error = "OsbsValidationException"

\* validate() failed where both files are there to be read
C2_Witness ==
    /\ ~valid
    /\ pc = "raised"
    /\ files.template.kind = "json"
    /\ files.customize.kind = "json"
    /\ pt._customize_conf_path # None
    /\ EnableDirectives # {}

\* no directive to apply
CustomizationEmpty ==
    /\ Len(Get(EffectiveCustomization, "disable_plugins", <<>>)) = 0
    /\ Len(Get(EffectiveCustomization, "enable_plugins", <<>>)) = 0

\* the plugin names the model uses
AllNames ==
    UNION {UNION {SeqRange(Names(doc[ph])) : ph \in DOMAIN doc} :
              doc \in {TplOrchestrator, TplSparse, TplSource}}
    \cup {RuleTarget(rule)[2] : rule \in SeqRange(Rules("image")) \cup SeqRange(Rules("source"))}

Phases ==
    {"prebuild_plugins", "buildstep_plugins", "prepublish_plugins", "postbuild_plugins",
     "exit_plugins"}

C4_EveryRuleGuarded ==
    pt._template # None =>
        \A rule \in SeqRange(Rules("image")) \cup SeqRange(Rules("source")) :
            ~Lists(pt._template, RuleTarget(rule)[1], RuleTarget(rule)[2]) =>
                /\ ApplyRule(rule, pt, user_params).err = "none"
                /\ ApplyRule(rule, pt, user_params).pt = pt

\* what follows the last ':' of s, all of s when it has none
AfterLastColon(s) ==
    LET k == CHOOSE k \in 0..Len(s) :
                /\ k = 0 \/ s[k] = ":"
                /\ \A j \in (k + 1)..Len(s) : s[j] # ":"
    IN  SubSeq(s, k + 1, Len(s))

\* the decision table of tag_suffixes
TagTable(up) ==
    LET orchestrator == up.build_type = BUILD_TYPE_ORCHESTRATOR
        extra == IF Truthy(up.additional_tags) THEN up.additional_tags.v ELSE <<>>
        vr == Str("{version}-{release}")
        row == CASE ~orchestrator -> <<<<>>, <<>>>>
                 [] orchestrator /\ Truthy(up.scratch) -> <<<<>>, <<>>>>
                 [] orchestrator /\ ~Truthy(up.scratch) /\ Truthy(up.isolated) ->
                        <<<<vr>>, <<>>>>
                 [] orchestrator /\ ~Truthy(up.scratch) /\ ~Truthy(up.isolated)
                        /\ Truthy(up.tags_from_yaml) -> <<<<vr>>, extra>>
                 [] OTHER -> <<<<vr>>, <<Str("latest"), Str("{version}")>> \o extra>>
    IN  Dict([unique |-> List(<<Text(AfterLastColon(up.image_tag.v))>>),
              primary |-> List(row[1]),
              floating |-> List(row[2])])

TagPlugin(doc) == Lists(doc, "postbuild_plugins", "tag_from_config")
TagSuffixes(doc) == ArgsOf(doc, "postbuild_plugins", "tag_from_config").tag_suffixes

\* C5: where tag_from_config is in postbuild_plugins the rule sets
\* tag_suffixes to the value of the decision table (unique: what follows the
\* last colon of image_tag; not orchestrator: nothing else; else the first of
\* scratch, isolated, tags_from_yaml, default), in the output of an image
\* render and whenever the rule is applied.
C5_TagSuffixesTable ==
    /\ (pc = "returned" /\ flavor = "image" /\ TagPlugin(output)) =>
            TagSuffixes(output) = TagTable(user_params)
    /\ (pt._template # None /\ TagPlugin(pt._template)) =>
            /\ Ok(render_tag_from_config(pt, user_params))
            /\ TagSuffixes(render_tag_from_config(pt, user_params).pt._template)
                    = TagTable(user_params)

\* an orchestrator render with tags_from_yaml, two additional tags and an
\* image tag with two colons returned just the additional tags as floating
C5_Witness ==
    /\ pc = "returned"
    /\ flavor = "image"
    /\ TagPlugin(output)
    /\ user_params.build_type = BUILD_TYPE_ORCHESTRATOR
    /\ ~Truthy(user_params.scratch)
    /\ ~Truthy(user_params.isolated)
    /\ Truthy(user_params.tags_from_yaml)
    /\ user_params.additional_tags = List(<<Str("extra"), Str("stable")>>)
    /\ Cardinality(Positions(user_params.image_tag.v, ":")) = 2
    /\ TagSuffixes(output).v.floating = user_params.additional_tags
    /\ TagSuffixes(output).v.unique = List(<<Text(<<"v", "1">>)>>)

\* an image render with image tag "myimage:7.1-3" and additional tags
\* {"extra"} returned a document with tag_from_config
ExampleRendered ==
    /\ pc = "returned"
    /\ flavor = "image"
    /\ TagPlugin(output)
    /\ user_params.image_tag
        = Text(<<"m", "y", "i", "m", "a", "g", "e", ":", "7", ".", "1", "-", "3">>)
    /\ user_params.additional_tags = List(<<Str("extra")>>)

\* the four cases of the example, the unique bucket being <<Text(unique)>>
ExampleCases(unique) ==
    LET orchestrator == user_params.build_type = BUILD_TYPE_ORCHESTRATOR
        scratch == Truthy(user_params.scratch)
        isolated == Truthy(user_params.isolated)
        yaml == Truthy(user_params.tags_from_yaml)
        vr == Str("{version}-{release}")
        Buckets(primary, floating) ==
            Dict([unique |-> List(<<Text(unique)>>), primary |-> List(primary),
                  floating |-> List(floating)])
    IN  /\ (orchestrator /\ ~scratch /\ ~isolated /\ ~yaml) =>
                TagSuffixes(output)
                    = Buckets(<<vr>>, <<Str("latest"), Str("{version}"), Str("extra")>>)
        /\ (orchestrator /\ scratch) => TagSuffixes(output) = Buckets(<<>>, <<>>)
        /\ (orchestrator /\ ~scratch /\ isolated) =>
                TagSuffixes(output) = Buckets(<<vr>>, <<>>)
        /\ ~orchestrator => TagSuffixes(output) = Buckets(<<>>, <<>>)

\* C6, as stated: for image tag "myimage:7.1-3" and additional tags
\* {"extra"} the unique bucket is ["3"] in each of the four cases.
C6_UniqueIsThree == ExampleRendered => ExampleCases(<<"3">>)

\* C6, amended: for image tag "myimage:7.1-3" and additional tags {"extra"}
\* the rule gives unique ["7.1-3"], and: orchestrator, no flag: primary
\* ["{version}-{release}"], floating ["latest", "{version}", "extra"];
\* orchestrator with scratch: both empty; orchestrator with isolated: primary
\* ["{version}-{release}"], floating empty; worker: both empty whatever the flags.
C6_UniqueIsVersionRelease == ExampleRendered => ExampleCases(<<"7", ".", "1", "-", "3">>)

\* the default case of the example has been rendered
C6_Witness ==
    /\ ExampleRendered
    /\ user_params.build_type = BUILD_TYPE_ORCHESTRATOR
    /\ ~Truthy(user_params.scratch)
    /\ ~Truthy(user_params.isolated)
    /\ ~Truthy(user_params.tags_from_yaml)
    /\ Len(TagSuffixes(output).v.floating.v) = 3

\* the customization pass has just run
AfterCustomization ==
    /\ pc = "render"
    /\ step > 1
    /\ RenderBody(flavor)[step - 1] = "render_customizations"

\* the plugins of the template that the document disables and enables
ReEnabled ==
    {d \in DisableDirectives :
        /\ Enabled(d.plugin_type, d.plugin_name)
        /\ Lists(files.template.data, d.plugin_type, d.plugin_name)}

Disabled(phase, name) ==
    \E d \in DisableDirectives : d.plugin_type = phase /\ d.plugin_name = name

\* the enable directives for (phase, name), by position in enable_plugins
EnablesOf(phase, name) ==
    {i \in 1..Len(EffectiveCustomization.enable_plugins) :
        /\ EffectiveCustomization.enable_plugins[i] \in EnableDirectives
        /\ EffectiveCustomization.enable_plugins[i].plugin_type = phase
        /\ EffectiveCustomization.enable_plugins[i].plugin_name = name}

LastEnableArgs(phase, name) ==
    EffectiveCustomization.enable_plugins[
        CHOOSE i \in EnablesOf(phase, name) : \A j \in EnablesOf(phase, name) : j <= i
    ].plugin_args

\* the entries of the template the document does not disable are in lst in
\* the template's order
OthersKeepOrder(lst, phase) ==
    SelectSeq(Names(lst), LAMBDA n : Lists(files.template.data, phase, n)
                                     /\ ~Disabled(phase, n))
    = SelectSeq(Names(files.template.data[phase]), LAMBDA n : ~Disabled(phase, n))

\* C7, as stated: after the customization pass a plugin of the template
\* that the document both disables and enables has exactly one entry, with
\* args an enable directive supplied, at the end of its phase, the other
\* entries being in their order.
C7_ReEnabledIsLast ==
    AfterCustomization =>
        \A d \in ReEnabled :
            LET lst == DocOf(pt)[d.plugin_type]
            IN  /\ Cardinality(Named(lst, d.plugin_name)) = 1
                /\ \E e \in EnableDirectives :
                    /\ e.plugin_type = d.plugin_type
                    /\ e.plugin_name = d.plugin_name
                    /\ ArgsOf(DocOf(pt), d.plugin_type, d.plugin_name) = e.plugin_args
                /\ lst[Len(lst)].name = d.plugin_name
                /\ OthersKeepOrder(lst, d.plugin_type)

\* the pass appends name to phase: a directive enables it, and the
\* template lacks it or a directive disables it
Appended(phase, name) ==
    /\ Enabled(phase, name)
    /\ ~Lists(files.template.data, phase, name) \/ Disabled(phase, name)

\* C7, amended: such a plugin has exactly one entry, with the args of the
\* last enable directive for it; its original position is lost: it comes
\* after every entry left from the template, among the plugins the enable
\* directives append, in the order of their first enable directives (at the
\* end of its phase if no later directive appends another plugin); the
\* entries left from the template are in their order.
C7_DisableThenEnable ==
    AfterCustomization =>
        \A d \in ReEnabled :
            LET lst == DocOf(pt)[d.plugin_type]
                at == Min(Named(lst, d.plugin_name))
            IN  /\ Cardinality(Named(lst, d.plugin_name)) = 1
                /\ ArgsOf(DocOf(pt), d.plugin_type, d.plugin_name)
                        = LastEnableArgs(d.plugin_type, d.plugin_name)
                /\ \A i \in 1..Len(lst) \ {at} :
                    IF Appended(d.plugin_type, lst[i].name)
                    THEN i < at <=> Min(EnablesOf(d.plugin_type, lst[i].name))
                                        < Min(EnablesOf(d.plugin_type, d.plugin_name))
                    ELSE i < at
                /\ (\A i \in 1..Len(lst) : i > at => lst[i].name # d.plugin_name
                                                     /\ Appended(d.plugin_type, lst[i].name))
                /\ OthersKeepOrder(lst, d.plugin_type)

\* the pass moved a plugin that was first in its phase to the end and gave
\* it the args of the directive
C7_Witness ==
    /\ AfterCustomization
    /\ \E d \in ReEnabled :
        LET lst == DocOf(pt)[d.plugin_type]
        IN  /\ Len(lst) > 1
            /\ files.template.data[d.plugin_type][1].name = d.plugin_name
            /\ lst[Len(lst)].name = d.plugin_name
            /\ DOMAIN ArgsOf(DocOf(pt), d.plugin_type, d.plugin_name) # {}

\* the customization document without the directives that lack a key
WellFormedOnly(conf) ==
    [k \in DOMAIN conf |->
        IF k = "disable_plugins"
        THEN SelectSeq(conf[k], LAMBDA d : {"plugin_type", "plugin_name"} \subseteq DOMAIN d)
        ELSE IF k = "enable_plugins"
        THEN SelectSeq(conf[k], LAMBDA d :
                {"plugin_type", "plugin_name", "plugin_args"} \subseteq DOMAIN d)
        ELSE conf[k]]

\* the object before the pass, had the document only those directives
WithWellFormedOnly == [Fresh EXCEPT !._customize_conf = WellFormedOnly(EffectiveCustomization)]

\* C8: a directive that lacks a required key changes nothing and raises
\* nothing; the later directives of its list, and the enable list after the
\* disable list, are applied: the pass leaves the document it leaves when
\* those directives are not there at all.
C8_MalformedDirectiveSkipped ==
    (files.template.kind = "json" /\ files.customize.kind = "json") =>
        /\ ~(pc = "raised" /\ RenderBody(flavor)[step] = "render_customizations")
        /\ AfterCustomization =>
            Plain(DocOf(pt))
                = Plain(DocOf(Then(DisableAll(WithWellFormedOnly), EnableAll).pt))

\* the pass went over a disable directive without a key and then removed
\* the plugin of a later one
C8_Witness ==
    /\ AfterCustomization
    /\ \E i, j \in 1..Len(Get(EffectiveCustomization, "disable_plugins", <<>>)) :
        LET ds == EffectiveCustomization.disable_plugins
        IN  /\ i < j
            /\ "plugin_name" \notin DOMAIN ds[i]
            /\ ds[j] \in DisableDirectives
            /\ Lists(files.template.data, ds[j].plugin_type, ds[j].plugin_name)
            /\ ~Lists(DocOf(pt), ds[j].plugin_type, ds[j].plugin_name)

-----------------------------------------------------------------------------
(* Properties of the PluginsTemplate methods *)

\* the last call was op on a phase the document had
CalledOn(op) == call.op = op /\ call.phase \in DOMAIN DocOf(pre)

\* the phase of the last call before it and after it, as written to JSON
Before == PlainList(DocOf(pre)[call.phase])
After == PlainList(pt._template[call.phase])

\* the last call left the other phases as they were
OtherPhasesUnchanged ==
    /\ DOMAIN pt._template = DOMAIN DocOf(pre)
    /\ \A ph \in DOMAIN pt._template \ {call.phase} : pt._template[ph] = DocOf(pre)[ph]

\* add_plugin twice on the object p, with args a1 and then a2: there is one
\* entry named name, with a2, where the first call put it
SecondCallWins(p, phase, name, a1, a2) ==
    LET first == add_plugin(p, phase, name, ArgsObj(a1, 0))
        second == add_plugin(first.pt, phase, name, ArgsObj(a2, 0))
    IN  /\ Ok(first) /\ Ok(second)
        /\ Cardinality(Named(second.pt._template[phase], name)) = 1
        /\ ArgsOf(second.pt._template, phase, name) = a2
        /\ Named(second.pt._template[phase], name) = Named(first.pt._template[phase], name)
        /\ Len(second.pt._template[phase]) = Len(first.pt._template[phase])

\* C9: add_plugin on a phase of the document: where an entry has the name,
\* its args are replaced, the entries stay where they are and the phase keeps
\* its length; otherwise the entry {name, args} is appended.  So two calls
\* with the same phase and name and different args, on a phase with at most
\* one entry of that name, leave one entry for it, with the args of the
\* second call, where the first call put it.
C9_AddOrReplace ==
    /\ CalledOn("add_plugin") =>
        /\ error = "none"
        /\ OtherPhasesUnchanged
        /\ IF call.name \in SeqRange(Names(Before))
           THEN /\ Len(After) = Len(Before)
                /\ \A i \in 1..Len(Before) :
                    After[i] = IF Before[i].name = call.name
                               THEN Put(Before[i], "args", call.args)
                               ELSE Before[i]
           ELSE After = Append(Before, [name |-> call.name, args |-> call.args])
    /\ pc = "api" =>
        \A phase \in DOMAIN DocOf(pt), name \in DocNames, a1, a2 \in DocArgs :
            (a1 # a2 /\ Cardinality(Named(DocOf(pt)[phase], name)) <= 1) =>
                SecondCallWins(pt, phase, name, a1, a2)

\* add_plugin replaced the args of an entry that is not the last of its phase
C9_Witness ==
    /\ CalledOn("add_plugin")
    /\ \E i \in 1..Len(Before) :
        /\ i < Len(Before)
        /\ Before[i].name = call.name
        /\ Before[i] # After[i]
        /\ After[i].args = call.args

\* C10: remove_plugin on a phase of the document deletes the first entry
\* with the name and nothing else, the other entries staying in their order;
\* where no entry of the phase has the name the document is unchanged; no
\* error is raised.
C10_RemoveFirstMatch ==
    CalledOn("remove_plugin") =>
        /\ error = "none"
        /\ OtherPhasesUnchanged
        /\ IF call.name \notin SeqRange(Names(Before))
           THEN pt._template = DocOf(pre)
           ELSE \E i \in 1..Len(Before) :
                    /\ Before[i].name = call.name
                    /\ \A j \in 1..(i - 1) : Before[j].name # call.name
                    /\ Len(After) = Len(Before) - 1
                    /\ \A j \in 1..Len(After) :
                        After[j] = IF j < i THEN Before[j] ELSE Before[j + 1]

\* remove_plugin deleted the first of two entries with the name, one that is
\* followed by other entries
C10_Witness ==
    /\ CalledOn("remove_plugin")
    /\ Cardinality(Named(Before, call.name)) = 2
    /\ Cardinality(Named(After, call.name)) = 1
    /\ Before[1].name = call.name
    /\ Len(After) = 2

\* the template file can be loaded
Loadable == files.template.kind = "json"

\* C11: get_plugin_conf returns the first entry with the name when the phase
\* is in the document and has one; it raises KeyError when the document has
\* no such phase and IndexError when the phase has no such entry; the
\* document is the same afterwards in each case.
C11_GetPluginConf ==
    (call.op = "get_plugin_conf" /\ Loadable) =>
        /\ pt._template = DocOf(pre)
        /\ pt._customize_conf = pre._customize_conf
        /\ IF call.phase \notin DOMAIN DocOf(pre)
           THEN error = "KeyError" /\ output = None
           ELSE IF call.name \notin SeqRange(Names(Before))
           THEN error = "IndexError" /\ output = None
           ELSE /\ error = "none"
                /\ \E i \in 1..Len(Before) :
                    /\ Before[i].name = call.name
                    /\ \A j \in 1..(i - 1) : Before[j].name # call.name
                    /\ output = Before[i]

\* get_plugin_conf returned the first of two different entries with the name
C11_Witness ==
    /\ CalledOn("get_plugin_conf")
    /\ error = "none"
    /\ \E i, j \in 1..Len(Before) :
        /\ i < j
        /\ Before[i].name = call.name
        /\ Before[j].name = call.name
        /\ Before[i] # Before[j]
        /\ output = Before[i]

\* C12: has_plugin_conf never raises: it returns true when get_plugin_conf
\* would return an entry and false when it would fail for whatever reason (a
\* template that cannot be loaded included), and leaves the document as it is.
C12_HasNeverRaises ==
    call.op = "has_plugin_conf" =>
        /\ error = "none"
        /\ output = Bool(Ok(get_plugin_conf(pre, call.phase, call.name)))
        /\ pt._template = IF Loadable THEN DocOf(pre) ELSE None

\* the position of the first entry of lst with the name
FirstNamed(lst, name) == Min({i \in 1..Len(lst) : lst[i].name = name})

\* the args mapping of an entry, empty when it has none
EntryArgs(e) == IF "args" \in DOMAIN e THEN e.args ELSE EmptyDict

\* entry b is entry a with args[key] = value and nothing else changed
ArgSet(a, b, key, value) ==
    /\ DOMAIN b = DOMAIN a \cup {"args"}
    /\ \A k \in DOMAIN a \ {"args"} : b[k] = a[k]
    /\ DOMAIN b.args = DOMAIN EntryArgs(a) \cup {key}
    /\ b.args[key] = value
    /\ \A k \in DOMAIN EntryArgs(a) \ {key} : b.args[k] = a.args[k]

C14_SetPluginArgValid ==
    call.op = "set_plugin_arg_valid" =>
        IF call.value = None
        THEN /\ error = "none"
             /\ output = Bool(FALSE)
             /\ pt = pre
        ELSE /\ pt = set_plugin_arg(pre, call.phase, call.name, call.key, call.value).pt
             /\ error = set_plugin_arg(pre, call.phase, call.name, call.key, call.value).err
             /\ output = IF error = "none" THEN Bool(TRUE) ELSE None

\* set_plugin_arg_valid wrote the value false and returned true
C14_Witness ==
    /\ CalledOn("set_plugin_arg_valid")
    /\ call.value = Bool(FALSE)
    /\ output = Bool(TRUE)
    /\ call.name \in SeqRange(Names(After))
    /\ After[FirstNamed(After, call.name)].args[call.key] = Bool(FALSE)

-----------------------------------------------------------------------------
(* Properties of render(): files that cannot be loaded *)

\* the customization file, if one is configured, holds a document
CustomizationLoadable ==
    pt._customize_conf_path = None \/ files.customize.kind \in {"json", "missing"}

\* C15: when the template file does not exist render raises the template
\* load error (OsbsException) and returns nothing; by then no document has
\* been changed: no directive and no rule has had an effect, whatever the
\* customization document.
C15_MissingTemplateFailsFirst ==
    (files.template.kind = "missing" /\ valid /\ CustomizationLoadable) =>
        /\ pc # "returned"
        /\ output = None
        /\ pt._template = None
        /\ pt._customize_conf \in {None, EffectiveCustomization}
        /\ pc = "render" => step <= Len(RenderBody(flavor)) - Len(Rules(flavor))
        /\ pc = "raised" => error = "OsbsException"

\* a render with a well-formed enable directive failed for its missing template
C15_Witness ==
    /\ files.template.kind = "missing"
    /\ pc = "raised"
    /\ error = "OsbsException"
    /\ \E d \in SeqRange(Get(EffectiveCustomization, "enable_plugins", <<>>)) :
        {"plugin_type", "plugin_name", "plugin_args"} \subseteq DOMAIN d

\* C16: a template file that is not valid JSON makes render fail with the
\* error of a file that cannot be opened, OsbsException; render returns
\* nothing in either case.
C16_InvalidTemplateSameError ==
    (files.template.kind \in {"missing", "invalid"} /\ valid /\ CustomizationLoadable) =>
        /\ pc # "returned"
        /\ pc = "raised" => error = "OsbsException"

\* statement i and the following ones of body, after the outcome r
RECURSIVE RunFrom(_, _, _)
RunFrom(r, body, i) ==
    IF ~Ok(r) \/ i > Len(body) THEN r
    ELSE RunFrom(Statement(body[i], r.pt, user_params, valid), body, i + 1)

\* what customize_conf caches for a file with two empty lists
EmptyLists == [disable_plugins |-> <<>>, enable_plugins |-> <<>>]

\* render() on an object that has loaded such a file
RenderWithEmptyLists ==
    RunFrom(R([Fresh EXCEPT !._customize_conf = EmptyLists], "none"), RenderBody(flavor), 1)

\* no path is configured, or there is no file at the path
NoCustomizationFile == pt._customize_conf_path = None \/ files.customize.kind = "missing"

\* C17: with no customization path (the attribute None or not there) or no
\* file at the path, the customization document is empty, loading it raises
\* nothing, and render returns (or raises) what it does with a customization
\* file of two empty lists.
C17_NoCustomizationFile ==
    NoCustomizationFile =>
        /\ pt._customize_conf \in {None, EmptyDict}
        /\ pt.reads.customize = 0
        /\ ~(pc = "raised" /\ RenderBody(flavor)[step] = "render_customizations")
        /\ pc = "returned" =>
            /\ Ok(RenderWithEmptyLists)
            /\ output = RenderWithEmptyLists.ret
        /\ pc = "raised" => error = RenderWithEmptyLists.err

\* a render without the customize_conf attribute returned a plugin that the
\* file on disk disables
C17_Witness ==
    /\ pc = "returned"
    /\ "customize_conf" \notin DOMAIN user_params
    /\ files.customize.kind = "json"
    /\ \E d \in SeqRange(Get(files.customize.data, "disable_plugins", <<>>)) :
        Lists(output, d.plugin_type, d.plugin_name)

-----------------------------------------------------------------------------
(* Properties of the rules *)

\* C18: no rule writes None as a plugin argument: in the output of a render
\* no argument of a plugin is null (an argument whose user parameter is None
\* is left out).
C18_NoNullArgument ==
    pc = "returned" =>
        \A ph \in DOMAIN output :
            \A i \in 1..Len(output[ph]) :
                \A k \in DOMAIN EntryArgs(output[ph][i]) : output[ph][i].args[k] # None

OrchestratePlugin(doc) == Lists(doc, "buildstep_plugins", "orchestrate_build")
OrchestrateArgs(doc) == ArgsOf(doc, "buildstep_plugins", "orchestrate_build")

\* an image render returned a document with orchestrate_build
OrchestrateRendered == pc = "returned" /\ flavor = "image" /\ OrchestratePlugin(output)

\* C19: where orchestrate_build is in buildstep_plugins the rule sets
\* build_kwargs to the user parameters' values for the worker fields, the
\* value of koji_target being under the key target and there being no key
\* koji_target, with the key flatpak (true) exactly when the flatpak
\* parameter is set, and nothing else.
C19_BuildKwargs ==
    OrchestrateRendered =>
        LET build_kwargs == OrchestrateArgs(output).build_kwargs
        IN  /\ build_kwargs.t = "dict"
            /\ DOMAIN build_kwargs.v
                = (worker_params \ {"koji_target"}) \cup {"target"}
                    \cup (IF Truthy(user_params.flatpak) THEN {"flatpak"} ELSE {})
            /\ \A k \in worker_params \ {"koji_target"} : build_kwargs.v[k] = user_params[k]
            /\ build_kwargs.v.target = user_params.koji_target
            /\ Truthy(user_params.flatpak) => build_kwargs.v.flatpak = Bool(TRUE)

\* a render with koji_target and flatpak set returned build_kwargs with
\* target and flatpak
C19_Witness ==
    /\ OrchestrateRendered
    /\ Truthy(user_params.flatpak)
    /\ user_params.koji_target # None
    /\ OrchestrateArgs(output).build_kwargs.v.target = user_params.koji_target
    /\ OrchestrateArgs(output).build_kwargs.v.flatpak = Bool(TRUE)

\* C20, as stated: config_kwargs has build_from = 'image:' + build_image
\* for all user parameters.
C20_BuildFromAlways ==
    OrchestrateRendered =>
        /\ "build_from" \in DOMAIN OrchestrateArgs(output).config_kwargs.v
        /\ OrchestrateArgs(output).config_kwargs.v.build_from
                = Str("image:" \o user_params.build_image.v)

\* C20, amended: config_kwargs is {build_from: 'image:' + build_image} when
\* buildroot_is_imagestream is not set, and the empty block when it is set.
C20_BuildFromUnlessImagestream ==
    OrchestrateRendered =>
        OrchestrateArgs(output).config_kwargs
            = IF Truthy(user_params.buildroot_is_imagestream)
              THEN Dict(EmptyDict)
              ELSE Dict([build_from |-> Str("image:" \o user_params.build_image.v)])

\* a render with buildroot_is_imagestream set returned an empty config_kwargs
C20_Witness ==
    /\ OrchestrateRendered
    /\ Truthy(user_params.buildroot_is_imagestream)
    /\ OrchestrateArgs(output).config_kwargs = Dict(EmptyDict)

\* the copies of the add_filesystem rule: <<user parameter, argument>>
AddFilesystemCopies ==
    {<<"yum_repourls", "repos">>,
     <<"filesystem_koji_task_id", "from_task_id">>,
     <<"platform", "architecture">>,
     <<"koji_target", "koji_target">>}

\* the statement render() is about to run is the rule
NextIs(rule) == pc = "render" /\ RenderBody(flavor)[step] = rule

\* the statement render() has just run is the rule
JustRan(rule) == pc = "render" /\ step > 1 /\ RenderBody(flavor)[step - 1] = rule

\* doc2 is doc1 but for the arguments of the first entry called name in phase
SameButArgs(doc1, doc2, phase, name) ==
    /\ DOMAIN doc1 = DOMAIN doc2
    /\ \A ph \in DOMAIN doc1 :
        /\ Len(doc1[ph]) = Len(doc2[ph])
        /\ \A i \in 1..Len(doc1[ph]) :
            IF ph = phase /\ i = Min(Named(doc1[ph], name))
            THEN /\ DOMAIN doc2[ph][i] \ {"args", "args_ref"}
                        = DOMAIN doc1[ph][i] \ {"args", "args_ref"}
                 /\ \A k \in DOMAIN doc1[ph][i] \ {"args", "args_ref"} :
                        doc2[ph][i][k] = doc1[ph][i][k]
            ELSE PlainEntry(doc2[ph][i]) = PlainEntry(doc1[ph][i])

\* one step of the add_filesystem rule on a document that lists the plugin
AddFilesystemStep ==
    (NextIs("render_add_filesystem")
        /\ Lists(DocOf(pt), "prebuild_plugins", "add_filesystem")) =>
        /\ pc' = "render"
        /\ step' = step + 1
        /\ SameButArgs(DocOf(pt), DocOf(pt'), "prebuild_plugins", "add_filesystem")
        /\ \A c \in AddFilesystemCopies :
            IF user_params[c[1]] # None
            THEN /\ c[2] \in DOMAIN ArgsOf(DocOf(pt'), "prebuild_plugins", "add_filesystem")
                 /\ ArgsOf(DocOf(pt'), "prebuild_plugins", "add_filesystem")[c[2]]
                        = user_params[c[1]]
            ELSE /\ c[2] \in DOMAIN ArgsOf(DocOf(pt'), "prebuild_plugins", "add_filesystem")
                        <=> c[2] \in DOMAIN ArgsOf(DocOf(pt), "prebuild_plugins",
                                                   "add_filesystem")
                 /\ c[2] \in DOMAIN ArgsOf(DocOf(pt), "prebuild_plugins", "add_filesystem")
                        => ArgsOf(DocOf(pt'), "prebuild_plugins", "add_filesystem")[c[2]]
                            = ArgsOf(DocOf(pt), "prebuild_plugins", "add_filesystem")[c[2]]
        /\ \A k \in (DOMAIN ArgsOf(DocOf(pt), "prebuild_plugins", "add_filesystem")
                     \cup DOMAIN ArgsOf(DocOf(pt'), "prebuild_plugins", "add_filesystem"))
                    \ {c[2] : c \in AddFilesystemCopies} :
            /\ k \in DOMAIN ArgsOf(DocOf(pt), "prebuild_plugins", "add_filesystem")
            /\ k \in DOMAIN ArgsOf(DocOf(pt'), "prebuild_plugins", "add_filesystem")
            /\ ArgsOf(DocOf(pt'), "prebuild_plugins", "add_filesystem")[k]
                = ArgsOf(DocOf(pt), "prebuild_plugins", "add_filesystem")[k]

\* C21: where add_filesystem is in prebuild_plugins the rule gives repos,
\* from_task_id, architecture and koji_target the values of yum_repourls,
\* filesystem_koji_task_id, platform and koji_target, each exactly when its
\* own parameter is not None and whatever the other three are; an argument
\* whose parameter is None, every other argument and the rest of the
\* document are as before.
C21_AddFilesystemCopies == [][AddFilesystemStep]_vars

\* the rule has run with filesystem_koji_task_id set and yum_repourls unset:
\* from_task_id is written, repos is as the customization left it
C21_Witness ==
    /\ JustRan("render_add_filesystem")
    /\ user_params.filesystem_koji_task_id # None
    /\ user_params.yum_repourls = None
    /\ user_params.platform = None
    /\ ArgsOf(DocOf(pt), "prebuild_plugins", "add_filesystem").from_task_id
            = user_params.filesystem_koji_task_id
    /\ "architecture" \notin DOMAIN ArgsOf(DocOf(pt), "prebuild_plugins", "add_filesystem")

\* the flavor that is not f
OtherFlavor(f) == IF f = "image" THEN "source" ELSE "image"

\* the rules either flavor runs
AllRules == SeqRange(Rules("image")) \cup SeqRange(Rules("source"))

\* C22, as stated: a rule a render of one flavor has run is not in the rule
\* list of the other flavor.
C22_RuleListsDisjoint ==
    \A rule \in AllRules :
        JustRan(rule) => rule \notin SeqRange(Rules(OtherFlavor(flavor)))

\* C22, amended: the two rule lists differ and share render_koji and
\* render_koji_tag_build only: a rule a render of one flavor has run and
\* that the other flavor runs too is one of these two.
C22_RuleListsShareKoji ==
    \A rule \in AllRules :
        (JustRan(rule) /\ rule \in SeqRange(Rules(OtherFlavor(flavor))))
            => rule \in {"render_koji", "render_koji_tag_build"}

\* a source container render has run render_koji_tag_build, which image
\* renders run too, and the rule has written its argument
C22_Witness ==
    /\ flavor = "source"
    /\ JustRan("render_koji_tag_build")
    /\ "render_koji_tag_build" \in SeqRange(Rules("image"))
    /\ "render_fetch_sources" \notin SeqRange(Rules("image"))
    /\ Lists(DocOf(pt), "exit_plugins", "koji_tag_build")
    /\ "target" \in DOMAIN ArgsOf(DocOf(pt), "exit_plugins", "koji_tag_build")

-----------------------------------------------------------------------------
(* A PluginsTemplate used either way: by a render() call or by direct calls
   of its methods *)

AllInit == Init \/ DocInit

AllNext == Next \/ DocNext

SpecAll == AllInit /\ [][AllNext]_vars

-----------------------------------------------------------------------------
(* Properties of the document under any operations *)

\* no two entries of a phase of doc have the same name
UniqueNames(doc) ==
    \A ph \in DOMAIN doc :
        \A i, j \in 1..Len(doc[ph]) :
            ("name" \in DOMAIN doc[ph][i] /\ NameIs(doc[ph][j], doc[ph][i].name)) => i = j

\* C23: when no phase of the template file lists a name twice, no phase of
\* the document does, after every remove_plugin, add_plugin and
\* set_plugin_arg call and at every point of a render, whatever the
\* customization document (several enable directives for one plugin
\* included).
C23_NamesStayUnique ==
    (Loadable /\ UniqueNames(files.template.data)) => UniqueNames(DocOf(pt))

\* the customization pass has run two enable directives for a plugin the
\* template lacks: the phase lists it once
C23_Witness ==
    /\ AfterCustomization
    /\ Loadable
    /\ UniqueNames(files.template.data)
    /\ \E d \in EnableDirectives :
        /\ Cardinality(EnablesOf(d.plugin_type, d.plugin_name)) > 1
        /\ ~Lists(files.template.data, d.plugin_type, d.plugin_name)
        /\ Cardinality(Named(DocOf(pt)[d.plugin_type], d.plugin_name)) = 1

\* the names the enable directives append to phase, in the order of the
\* first directive for each
AppendedNames(phase) ==
    LET en == Get(EffectiveCustomization, "enable_plugins", <<>>)
        first == SelectSeq([i \in 1..Len(en) |-> i],
                           LAMBDA i : /\ en[i] \in EnableDirectives
                                      /\ en[i].plugin_type = phase
                                      /\ Appended(phase, en[i].plugin_name)
                                      /\ i = Min(EnablesOf(phase, en[i].plugin_name)))
    IN  [j \in 1..Len(first) |-> en[first[j]].plugin_name]

\* the names of the template's phase that no disable directive removes
SurvivingNames(phase) ==
    SelectSeq(Names(files.template.data[phase]), LAMBDA n : ~Disabled(phase, n))

\* the customization pass of a render is over
CustomizationDone ==
    /\ pc \in {"render", "returned"}
    /\ step > 1
    /\ \E i \in 1..(IF pc = "returned" THEN step ELSE step - 1) :
            RenderBody(flavor)[i] = "render_customizations"

\* names without the first n
WithoutFirst(names, n) == RemoveAt(names, Min({j \in 1..Len(names) : names[j] = n}))

\* in a render, from the end of the customization pass on, a phase lists the
\* surviving entries of the template in the template's order and then the
\* added ones in the order they were added
RenderKeepsOrder ==
    (CustomizationDone /\ Loadable) =>
        \A ph \in DOMAIN files.template.data :
            Names(DocOf(pt)[ph]) = SurvivingNames(ph) \o AppendedNames(ph)

\* a statement of render() other than the customization pass moves no entry
RuleKeepsOrder ==
    (pc = "render" /\ RenderBody(flavor)[step] # "render_customizations") =>
        /\ DOMAIN DocOf(pt') = DOMAIN DocOf(pt)
        /\ \A ph \in DOMAIN DocOf(pt) : Names(DocOf(pt')[ph]) = Names(DocOf(pt)[ph])

\* a direct call: add_plugin leaves the names as they are or appends the
\* new one, remove_plugin takes one name out, the others leave the names
CallKeepsOrder ==
    pc = "api" =>
        /\ DOMAIN DocOf(pt') = DOMAIN DocOf(pt)
        /\ \A ph \in DOMAIN DocOf(pt) :
            Names(DocOf(pt')[ph]) =
                IF call'.op = "add_plugin" /\ call'.phase = ph
                    /\ ~Lists(DocOf(pt), ph, call'.name)
                THEN Append(Names(DocOf(pt)[ph]), call'.name)
                ELSE IF call'.op = "remove_plugin" /\ call'.phase = ph
                    /\ Lists(DocOf(pt), ph, call'.name)
                THEN WithoutFirst(Names(DocOf(pt)[ph]), call'.name)
                ELSE Names(DocOf(pt)[ph])

\* C24: the entries of the template that are still in a phase are in the
\* template's order; an entry add_plugin adds goes to the end of its phase
\* as it is then (so the added entries follow the surviving ones, in the
\* order they were added); set_plugin_arg and the rules move no entry.
C24_OrderPreserved ==
    /\ []RenderKeepsOrder
    /\ [][RuleKeepsOrder /\ CallKeepsOrder]_vars

\* a render returned a phase from which the customization removed an entry
\* that was not the last and to which it added two
C24_Witness ==
    /\ pc = "returned"
    /\ \E ph \in DOMAIN files.template.data :
        /\ Len(AppendedNames(ph)) = 2
        /\ Len(SurvivingNames(ph)) < Len(files.template.data[ph])
        /\ SurvivingNames(ph)
            # SubSeq(Names(files.template.data[ph]), 1, Len(SurvivingNames(ph)))
        /\ Names(output[ph]) = SurvivingNames(ph) \o AppendedNames(ph)

\* the directive names a phase the template lacks
UnknownPhase(d) ==
    "plugin_type" \in DOMAIN d /\ d.plugin_type \notin DOMAIN files.template.data

\* the customization document without the directives for a phase the
\* template lacks
KnownPhasesOnly(conf) ==
    [k \in DOMAIN conf |->
        IF k \in {"disable_plugins", "enable_plugins"}
        THEN SelectSeq(conf[k], LAMBDA d : ~UnknownPhase(d))
        ELSE conf[k]]

\* render() on an object that has loaded the document without them
RenderWithKnownPhasesOnly ==
    RunFrom(R([Fresh EXCEPT !._customize_conf = KnownPhasesOnly(EffectiveCustomization)],
              "none"),
            RenderBody(flavor), 1)

\* C25: the document has the phase keys of the template file at every
\* point, and so has the output of a render. A disable or enable directive
\* for a phase the template lacks adds no phase and changes nothing, the
\* customization pass raises nothing because of it, the other directives
\* and the rules run: the pass leaves, and render returns (or raises), what
\* it does when those directives are not in the document.
C25_PhaseKeysFixed ==
    Loadable =>
        /\ DOMAIN DocOf(pt) = DOMAIN files.template.data
        /\ pc = "returned" => DOMAIN output = DOMAIN files.template.data
        /\ CustomizationLoadable =>
            /\ ~(pc = "raised" /\ RenderBody(flavor)[step] = "render_customizations")
            /\ AfterCustomization =>
                Plain(DocOf(pt))
                    = Plain(DocOf(Then(DisableAll(
                            [Fresh EXCEPT !._customize_conf
                                = KnownPhasesOnly(EffectiveCustomization)]), EnableAll).pt))
            /\ pc = "returned" =>
                /\ Ok(RenderWithKnownPhasesOnly)
                /\ output = RenderWithKnownPhasesOnly.ret
            /\ pc = "raised" => error = RenderWithKnownPhasesOnly.err

\* a render returned whose customization has a disable and an enable
\* directive for a phase the template lacks, each before a directive that
\* took effect
C25_Witness ==
    /\ pc = "returned"
    /\ \E i, j \in 1..Len(Get(EffectiveCustomization, "disable_plugins", <<>>)) :
        LET ds == EffectiveCustomization.disable_plugins
        IN  /\ i < j
            /\ UnknownPhase(ds[i])
            /\ ds[j] \in DisableDirectives
            /\ Lists(files.template.data, ds[j].plugin_type, ds[j].plugin_name)
            /\ ~Lists(output, ds[j].plugin_type, ds[j].plugin_name)
    /\ \E i, j \in 1..Len(Get(EffectiveCustomization, "enable_plugins", <<>>)) :
        LET es == EffectiveCustomization.enable_plugins
        IN  /\ i < j
            /\ UnknownPhase(es[i])
            /\ es[j] \in EnableDirectives
            /\ ~Lists(files.template.data, es[j].plugin_type, es[j].plugin_name)
            /\ Lists(output, es[j].plugin_type, es[j].plugin_name)

-----------------------------------------------------------------------------
(* A renderer whose render() is called again *)

MaxRenders == 2

\* the number of the render() call that is running or has ended
Renders == IF call = NoCall THEN 1 ELSE call.n

\* the caller keeps what the call gave and calls render() again on the same
\* object
RenderAgain ==
    /\ pc \in {"returned", "raised"}
    /\ Renders < MaxRenders
    /\ pc' = "render"
    /\ step' = 1
    /\ call' = [op |-> "render", n |-> Renders + 1]
    /\ pre' = [pt |-> pt, pc |-> pc, output |-> output, error |-> error]
    /\ output' = None
    /\ error' = "none"
    /\ UNCHANGED <<flavor, user_params, valid, files, pt>>

RepeatNext == Next \/ RenderAgain

SpecRepeat == Init /\ [][RepeatNext]_vars

-----------------------------------------------------------------------------
(* Properties of a renderer used more than once *)

\* C26, as stated: neither file is read at construction, and each is read at
\* most once whatever is called on the renderer.
C26_ReadAtMostOnce ==
    /\ pc = "idle" => pt.reads = [template |-> 0, customize |-> 0]
    /\ pt.reads.template <= 1
    /\ pt.reads.customize <= 1

\* C26, amended: nothing is read at construction; a file whose load gives a
\* document is read once, at its first access, and never again; a file that
\* is not there, or a customization file without a configured path, is
\* never read; a file that is not JSON, or holds null, is never cached and
\* is read again by every render that reaches it.
C26_LoadedFileReadOnce ==
    /\ pc = "idle" => pt = Fresh
    /\ files.template.kind = "json" =>
        /\ pt.reads.template <= 1
        /\ pt.reads.template = 1 <=> pt._template # None
    /\ (pt._customize_conf_path # None /\ files.customize.kind = "json") =>
        /\ pt.reads.customize <= 1
        /\ pt.reads.customize = 1 <=> pt._customize_conf # None
    /\ files.template.kind = "missing" => pt.reads.template = 0
    /\ (pt._customize_conf_path = None \/ files.customize.kind = "missing")
            => pt.reads.customize = 0
    /\ files.template.kind \in {"invalid", "null"} =>
        /\ pt._template = None
        /\ pt.reads.template <= Renders
        /\ (valid /\ CustomizationLoadable /\ pc = "raised") => pt.reads.template = Renders
    /\ (pt._customize_conf_path # None /\ files.customize.kind \in {"invalid", "null"}) =>
        /\ pt._customize_conf = None
        /\ pt.reads.customize <= Renders
        /\ (valid /\ pc = "raised") => pt.reads.customize = Renders

\* a second render has returned from the document and the customization
\* document the first one loaded, each file having been read once
C26_Witness ==
    /\ pc = "returned"
    /\ Renders = 2
    /\ pre.pc = "returned"
    /\ files.template.kind = "json"
    /\ files.customize.kind = "json"
    /\ pt._customize_conf_path # None
    /\ pt.reads = [template |-> 1, customize |-> 1]

\* render() has returned for the second time (or a later one) on an object
\* whose call before had returned
ReturnedAgain == pc = "returned" /\ Renders > 1 /\ pre.pc = "returned"

\* C27, as stated: when the template lists no name twice in a phase, a
\* second render on the same object returns the output of the first.
C27_SecondRenderSameOutput ==
    (ReturnedAgain /\ UniqueNames(files.template.data)) => output = pre.output

\* the names the enable directives append to phase: those no disable
\* directive names, and those one does
NewNames(phase) == SelectSeq(AppendedNames(phase), LAMBDA n : ~Disabled(phase, n))
ReAddedNames(phase) == SelectSeq(AppendedNames(phase), LAMBDA n : Disabled(phase, n))

\* C27, amended: every rule is idempotent: run again on the document it has
\* just left, it changes nothing. A second render on the same object
\* validates again, works on the cached document (the template file is not
\* read again) and ends as the first did; its output has in every phase the
\* entries of the first output, with the same arguments, but not always in
\* the same order: the customization pass removes and appends again every
\* plugin it both disables and enables, so these come last, behind the
\* plugins that enable directives alone added.
C27_SecondRenderSameEntries ==
    /\ \A rule \in AllRules :
        JustRan(rule) =>
            /\ Ok(ApplyRule(rule, pt, user_params))
            /\ ApplyRule(rule, pt, user_params).pt = pt
    /\ (Renders > 1 /\ pc \in {"returned", "raised"}) =>
        /\ pc = pre.pc
        /\ error = pre.error
    /\ (Renders > 1 /\ ~valid) => pc \in {"render", "raised"} /\ step = 1
    /\ (ReturnedAgain /\ UniqueNames(files.template.data)) =>
        /\ pt.reads.template = 1
        /\ DOMAIN output = DOMAIN pre.output
        /\ \A ph \in DOMAIN output :
            /\ Len(output[ph]) = Len(pre.output[ph])
            /\ SeqRange(output[ph]) = SeqRange(pre.output[ph])
            /\ Names(output[ph]) = SurvivingNames(ph) \o NewNames(ph) \o ReAddedNames(ph)

\* a second render returned an output that is not the first: a plugin the
\* customization disables and enables went behind one it only enables
C27_Witness ==
    /\ ReturnedAgain
    /\ UniqueNames(files.template.data)
    /\ output # pre.output
    /\ \E ph \in DOMAIN output :
        /\ Len(NewNames(ph)) > 0
        /\ Len(ReAddedNames(ph)) > 0
        /\ Names(pre.output[ph]) = SurvivingNames(ph) \o AppendedNames(ph)
        /\ Names(output[ph]) # Names(pre.output[ph])

-----------------------------------------------------------------------------
(* The order of the rules *)

\* s from its last element to its first
Reverse(s) == [i \in 1..Len(s) |-> s[Len(s) + 1 - i]]

\* orders of the rules of flavor f: for the source flavor all of them; for
\* the image flavor those that exchange two neighbouring rules, those that
\* call one rule before or after all the others, and the reverse order
RuleOrders(f) ==
    IF f = "source"
    THEN {[i \in 1..Len(Rules(f)) |-> Rules(f)[p[i]]] :
            p \in Permutations(1..Len(Rules(f)))}
    ELSE {Swap(Rules(f), i, i + 1) : i \in 1..(Len(Rules(f)) - 1)}
         \cup {<<Rules(f)[i]>> \o RemoveAt(Rules(f), i) : i \in 1..Len(Rules(f))}
         \cup {Append(RemoveAt(Rules(f), i), Rules(f)[i]) : i \in 1..Len(Rules(f))}
         \cup {Reverse(Rules(f))}

\* what render() returns when its rules are called in that order
RenderInOrder(order) ==
    RunFrom(R(Fresh, "none"),
            <<"validate", "render_customizations">> \o order \o <<"to_json">>, 1).ret

\* the arguments a rule is about to write go to its own plugin only
RuleWritesOwnPlugin ==
    \A rule \in AllRules :
        (NextIs(rule) /\ Ok(ApplyRule(rule, pt, user_params))) =>
            IF Lists(DocOf(pt), RuleTarget(rule)[1], RuleTarget(rule)[2])
            THEN SameButArgs(DocOf(pt), DocOf(ApplyRule(rule, pt, user_params).pt),
                             RuleTarget(rule)[1], RuleTarget(rule)[2])
            ELSE Plain(DocOf(ApplyRule(rule, pt, user_params).pt)) = Plain(DocOf(pt))

\* C28: when render returns, it returns the same document with its rules
\* called, after the customization pass, in another order (checked for
\* every order of the source rules and, for the image rules, for every
\* exchange of two neighbouring rules, every order with one rule moved to
\* the front or to the end, and the reverse order); each rule writes the
\* arguments of its own plugin only, and no two rules of a flavor have the
\* same plugin.
C28_RuleOrderIrrelevant ==
    /\ pc = "returned" => \A order \in RuleOrders(flavor) : RenderInOrder(order) = output
    /\ RuleWritesOwnPlugin
    /\ Cardinality({RuleTarget(rule) : rule \in SeqRange(Rules(flavor))})
            = Len(Rules(flavor))

\* an image render returned in which render_koji and render_koji_tag_build
\* both wrote the same user parameter, each to its plugin, as they do in the
\* reverse order
C28_Witness ==
    /\ pc = "returned"
    /\ flavor = "image"
    /\ user_params.koji_target # None
    /\ Lists(output, "prebuild_plugins", "koji")
    /\ Lists(output, "exit_plugins", "koji_tag_build")
    /\ ArgsOf(output, "prebuild_plugins", "koji").target = user_params.koji_target
    /\ ArgsOf(output, "exit_plugins", "koji_tag_build").target = user_params.koji_target
    /\ RenderInOrder(Reverse(Rules(flavor))) = output
    /\ Reverse(Rules(flavor)) # Rules(flavor)

-----------------------------------------------------------------------------
(* Two renderers made for the same files, their render() calls interleaved.
   pre holds the PluginsTemplate objects (objs) and, for each renderer, how
   far its render() call is (inst). *)

Renderers == {1, 2}

\* a changed constructor: the PluginsTemplate is made once and used by every
\* renderer (as a class attribute would be)
SharedPt(k) == 1

\* self.pt = PluginsTemplate(...) in __init__: the k-th renderer has the
\* k-th object, its own
OwnPt(k) == k

\* the renderers of the two-renderer specification
TwoInputs ==
    {Input("image", FullParams, Json(tpl), Json(cust)) :
        tpl \in {TplOrchestrator, TplSparse}, cust \in ImageCustomizations}
    \cup
    {Input("source", BaseParams, Json(tpl), Json(cust)) :
        tpl \in {TplSource, TplSparse}, cust \in ImageCustomizations}
    \cup
    {Input("source", FullParams, tpl, cust) :
        tpl \in {Missing, Invalid, Json(TplSource)},
        cust \in {Missing, Invalid,
                  Json([disable_plugins |-> <<Disable("prebuild_plugins", "fetch_sources")>>,
                        enable_plugins |->
                            <<Enable("prebuild_plugins", "fetch_sources", EmptyDict),
                              Enable("prebuild_plugins", "koji", [hub |-> Str("site")])>>])}}

TwoInit ==
    \E i \in TwoInputs :
        /\ flavor = i.flavor
        /\ user_params = i.up
        /\ valid \in BOOLEAN
        /\ files = [template |-> i.template, customize |-> i.customize]
        /\ pt = NewPluginsTemplate(customize_conf_path(i.up))
        /\ pc = "two"
        /\ step = 0
        /\ output = None
        /\ error = "none"
        /\ call = NoCall
        /\ pre = [objs |-> [k \in Renderers |->
                                NewPluginsTemplate(customize_conf_path(i.up))],
                  inst |-> [k \in Renderers |->
                                [pc |-> "idle", step |-> 0, output |-> None,
                                 error |-> "none"]]]

\* the caller of the k-th renderer calls render()
TwoRender(k) ==
    /\ pc = "two"
    /\ pre.inst[k].pc = "idle"
    /\ pre' = [pre EXCEPT !.inst[k].pc = "render", !.inst[k].step = 1]
    /\ UNCHANGED <<flavor, user_params, valid, files, pt, pc, step, output, error, call>>

\* the next statement of the k-th renderer's render() has run with outcome r
TwoContinue(k, r) ==
    pre' = [pre EXCEPT !.objs[OwnPt(k)] = r.pt,
                       !.inst[k] = IF Ok(r) THEN [@ EXCEPT !.step = @ + 1]
                                   ELSE [@ EXCEPT !.pc = "raised", !.error = r.err]]

TwoStep(k) ==
    /\ pc = "two"
    /\ pre.inst[k].pc = "render"
    /\ pre.inst[k].step < Len(RenderBody(flavor))
    /\ TwoContinue(k, Statement(RenderBody(flavor)[pre.inst[k].step],
                                pre.objs[OwnPt(k)], user_params, valid))
    /\ UNCHANGED <<flavor, user_params, valid, files, pt, pc, step, output, error, call>>

\* return self.pt.to_json() in the k-th renderer, r being the outcome of
\* to_json
TwoFinish(k, r) ==
    pre' = [pre EXCEPT !.objs[OwnPt(k)] = r.pt,
                       !.inst[k] = IF Ok(r) THEN [@ EXCEPT !.pc = "returned", !.output = r.ret]
                                   ELSE [@ EXCEPT !.pc = "raised", !.error = r.err]]

TwoReturn(k) ==
    /\ pc = "two"
    /\ pre.inst[k].pc = "render"
    /\ pre.inst[k].step = Len(RenderBody(flavor))
    /\ TwoFinish(k, Statement(RenderBody(flavor)[pre.inst[k].step],
                              pre.objs[OwnPt(k)], user_params, valid))
    /\ UNCHANGED <<flavor, user_params, valid, files, pt, pc, step, output, error, call>>

TwoNext == \E k \in Renderers : TwoRender(k) \/ TwoStep(k) \/ TwoReturn(k)

SpecTwo == TwoInit /\ [][TwoNext]_vars

\* the statements a render() call in the state c (of inst) has run
StatementsRun(c) ==
    SubSeq(RenderBody(flavor), 1, IF c.pc = "render" THEN c.step - 1 ELSE c.step)

\* the outcome of those statements on a renderer that is alone
Alone(c) == RunFrom(R(Fresh, "none"), StatementsRun(c), 1)

\* a step of the other renderer leaves the object of the k-th as it is
OthersStepInvisible ==
    \A k \in Renderers :
        pre'.inst[k] = pre.inst[k] => pre'.objs[OwnPt(k)] = pre.objs[OwnPt(k)]

\* the k-th renderer is where it is when it runs alone
AsAlone(k) ==
    /\ pre.objs[OwnPt(k)] = Alone(pre.inst[k]).pt
    /\ pre.inst[k].pc = "returned" => pre.inst[k].output = Alone(pre.inst[k]).ret
    /\ pre.inst[k].pc = "raised" => pre.inst[k].error = Alone(pre.inst[k]).err

\* C29: two renderers made for the same template and customization files
\* share no object: however their render() calls are interleaved, each has
\* at every point the document, and in the end the output or the error, it
\* has when it runs alone, and a step of one changes nothing the other
\* sees.
C29_NoSharedState ==
    /\ [](\A k \in Renderers : AsAlone(k))
    /\ [][OthersStepInvisible]_vars

\* both renderers have returned a document that is not the template's, each
\* the output of a renderer that is alone
C29_Witness ==
    /\ \A k \in Renderers :
        /\ pre.inst[k].pc = "returned"
        /\ pre.inst[k].output = Alone(pre.inst[k]).ret
    /\ Plain(files.template.data) # pre.inst[1].output
    /\ pre.inst[1].output = pre.inst[2].output

-----------------------------------------------------------------------------
(* The cached customization document *)

\* C30: the cached customization document is what was loaded from the
\* file, at every point of a render and after it: no rule that sets an
\* argument of a plugin the customization pass enabled changes the
\* plugin_args of the enable directive.
C30_CustomizationUnchanged ==
    (pt._customize_conf # None /\ pt._customize_conf_path # None
        /\ files.customize.kind = "json") =>
        pt._customize_conf = files.customize.data

====
